---- MODULE Spec2Model ----
(***************************************************************************)
(* Message Stream Translator of ai-sdk-provider-claude-code:                *)
(* ClaudeCodeLanguageModel.doStream / doGenerate and the truncation         *)
(* classifier isClaudeCodeTruncationError.                                  *)
(***************************************************************************)
EXTENDS Integers, Sequences, FiniteSets, TLC

VARIABLES
  sessionId,  \* this.sessionId of the model instance
  stream,     \* one doStream invocation: closure locals and the controller
  gen,        \* one doGenerate invocation: locals and outcome
  probe,      \* one call of isClaudeCodeTruncationError(error, bufferedText)
  settings    \* this.settings of the model instance

vars == <<sessionId, stream, gen, probe, settings>>

(***************************************************************************)
(* Short JavaScript strings (error names, codes, messages) are sequences of *)
(* one-character strings, so that toLowerCase, toUpperCase and includes are *)
(* computed.  A value that is not a string is NotStr.                       *)
(***************************************************************************)
JsStr(chars) == [isString |-> TRUE, chars |-> chars]
NotStr == [isString |-> FALSE, chars |-> <<>>]
LowerLetters == <<"a","b","c","d","e","f","g","h","i","j","k","l","m","n","o","p","q","r","s","t","u","v","w","x","y","z">>
UpperLetters == <<"A","B","C","D","E","F","G","H","I","J","K","L","M","N","O","P","Q","R","S","T","U","V","W","X","Y","Z">>

\* chars with every letter of from replaced by the letter of to at the same index
ChangeCase(chars, from, to) ==
  [i \in 1..Len(chars) |->
     IF \E k \in 1..Len(from) : from[k] = chars[i]
       THEN to[CHOOSE k \in 1..Len(from) : from[k] = chars[i]]
       ELSE chars[i]]

toLowerCase(chars) == ChangeCase(chars, UpperLetters, LowerLetters)

toUpperCase(chars) == ChangeCase(chars, LowerLetters, UpperLetters)

\* String.prototype.includes
includes(chars, pattern) ==
  \E k \in 0..(Len(chars) - Len(pattern)) :
    \A i \in 1..Len(pattern) : chars[k + i] = pattern[i]

MsgEndOfJsonInput == <<"U","n","e","x","p","e","c","t","e","d"," ","e","n","d"," ","o","f"," ","J","S","O","N"," ","i","n","p","u","t">>   \* 'Unexpected end of JSON input'
MsgUnexpectedToken == <<"U","n","e","x","p","e","c","t","e","d"," ","t","o","k","e","n"," ","}"," ","i","n"," ","J","S","O","N"," ","a","t"," ","p","o","s","i","t","i","o","n"," ","1","8">>   \* 'Unexpected token } in JSON at position 18'
MsgUnterminated == <<"U","n","t","e","r","m","i","n","a","t","e","d"," ","s","t","r","i","n","g"," ","i","n"," ","J","S","O","N"," ","a","t"," ","p","o","s","i","t","i","o","n"," ","5">>   \* 'Unterminated string in JSON at position 5'
NameSyntaxError == <<"S","y","n","t","a","x","E","r","r","o","r">>   \* 'SyntaxError'
NameError == <<"E","r","r","o","r">>   \* 'Error'
NameAbortError == <<"A","b","o","r","t","E","r","r","o","r">>   \* 'AbortError'
CodeAbortErr == <<"A","B","O","R","T","_","E","R","R">>   \* 'ABORT_ERR'
LitSyntaxErrorLower == <<"s","y","n","t","a","x","e","r","r","o","r">>   \* 'syntaxerror'

(***************************************************************************)
(* Long JavaScript strings (assistant text, serialized tool input) are      *)
(* run-length encoded: a sequence of runs [c, n] with n > 0 and adjacent    *)
(* runs of different characters.  Every string has exactly one encoding,    *)
(* so equality of encodings is equality of strings.                         *)
(***************************************************************************)
EmptyStr == <<>>

Rep(ch, n) == IF n = 0 THEN EmptyStr ELSE <<[c |-> ch, n |-> n]>>

RECURSIVE StrLen(_)
StrLen(s) == IF s = <<>> THEN 0 ELSE Head(s).n + StrLen(Tail(s))

\* a + b
StrCat(a, b) ==
  IF a = <<>> THEN b
  ELSE IF b = <<>> THEN a
  ELSE IF a[Len(a)].c = b[1].c
    THEN SubSeq(a, 1, Len(a) - 1)
           \o <<[c |-> b[1].c, n |-> a[Len(a)].n + b[1].n]>>
           \o Tail(b)
    ELSE a \o b

\* s.slice(k)
RECURSIVE StrSlice(_, _)
StrSlice(s, k) ==
  IF k <= 0 THEN s
  ELSE IF s = <<>> THEN <<>>
  ELSE IF Head(s).n <= k THEN StrSlice(Tail(s), k - Head(s).n)
  ELSE <<[c |-> Head(s).c, n |-> Head(s).n - k]>> \o Tail(s)

\* s.startsWith(p)
RECURSIVE StrStartsWith(_, _)
StrStartsWith(s, p) ==
  IF p = <<>> THEN TRUE
  ELSE IF s = <<>> THEN FALSE
  ELSE IF Head(s).c # Head(p).c THEN FALSE
  ELSE IF Head(p).n = Head(s).n THEN StrStartsWith(Tail(s), Tail(p))
  ELSE IF Head(p).n < Head(s).n THEN Tail(p) = <<>>
  ELSE FALSE

\* the string whose characters are the given sequence
RECURSIVE StrOf(_)
StrOf(chars) ==
  IF chars = <<>> THEN EmptyStr
  ELSE StrCat(Rep(Head(chars), 1), StrOf(Tail(chars)))


(***************************************************************************)
(* Inputs.errors thrown by the upstream iterator.  cls is the constructor the      *)
(* value is an instance of ("Null" for a value that is not an object).      *)
(***************************************************************************)
JsNum(n) == [isNumber |-> TRUE, v |-> n]
NotNum == [isNumber |-> FALSE, v |-> 0]

MkError(cls, name, message, code, exitCode) ==
  [cls |-> cls, name |-> name, message |-> message, code |-> code,
   exitCode |-> exitCode]

NullError == MkError("Null", NotStr, NotStr, NotStr, NotNum)

MIN_TRUNCATION_LENGTH == 512

truncationIndicators ==
  { <<"u","n","e","x","p","e","c","t","e","d"," ","e","n","d"," ","o","f"," ","j","s","o","n"," ","i","n","p","u","t">>,   \* 'unexpected end of json input'
    <<"u","n","e","x","p","e","c","t","e","d"," ","e","n","d"," ","o","f"," ","i","n","p","u","t">>,   \* 'unexpected end of input'
    <<"u","n","e","x","p","e","c","t","e","d"," ","e","n","d"," ","o","f"," ","s","t","r","i","n","g">>,   \* 'unexpected end of string'
    <<"u","n","e","x","p","e","c","t","e","d"," ","e","o","f">>,   \* 'unexpected eof'
    <<"e","n","d"," ","o","f"," ","f","i","l","e">>,   \* 'end of file'
    <<"u","n","t","e","r","m","i","n","a","t","e","d"," ","s","t","r","i","n","g">>,   \* 'unterminated string'
    <<"u","n","t","e","r","m","i","n","a","t","e","d"," ","s","t","r","i","n","g"," ","c","o","n","s","t","a","n","t">> }   \* 'unterminated string constant'

\* a plausible slip: the length floor excludes a buffer of exactly the floor
isClaudeCodeTruncationError_floorExclusive(error, bufferedText) ==
  LET isSyntaxError ==
        \/ error.cls = "SyntaxError"
        \/ /\ error.name.isString
           /\ toLowerCase(error.name.chars) = LitSyntaxErrorLower
      rawMessage == IF error.message.isString THEN error.message.chars ELSE <<>>
      message == toLowerCase(rawMessage)
  IN  IF ~isSyntaxError THEN FALSE
      ELSE IF bufferedText = EmptyStr THEN FALSE
      ELSE IF ~(\E indicator \in truncationIndicators : includes(message, indicator))
        THEN FALSE
      ELSE IF StrLen(bufferedText) <= MIN_TRUNCATION_LENGTH THEN FALSE
      ELSE TRUE

isClaudeCodeTruncationError(error, bufferedText) ==
  LET isSyntaxError ==
        \/ error.cls = "SyntaxError"
        \/ /\ error.name.isString
           /\ toLowerCase(error.name.chars) = LitSyntaxErrorLower
      rawMessage == IF error.message.isString THEN error.message.chars ELSE <<>>
      message == toLowerCase(rawMessage)
  IN  IF ~isSyntaxError THEN FALSE
      ELSE IF bufferedText = EmptyStr THEN FALSE
      ELSE IF ~(\E indicator \in truncationIndicators : includes(message, indicator))
        THEN FALSE
      ELSE IF StrLen(bufferedText) < MIN_TRUNCATION_LENGTH THEN FALSE
      ELSE TRUE

isAbortError(err) ==
  /\ err.cls # "Null"
  /\ \/ err.name.isString /\ err.name.chars = NameAbortError
     \/ err.code.isString /\ toUpperCase(err.code.chars) = CodeAbortErr


(***************************************************************************)
(* Identifiers.  Up(n) is an id carried by an upstream message, Gen(n) the  *)
(* n-th value returned by generateId() in this invocation, NoId undefined.  *)
(***************************************************************************)
Up(n) == [src |-> "upstream", n |-> n]
Gen(n) == [src |-> "generated", n |-> n]
NoId == [src |-> "none", n |-> 0]

NoSession == "undefined"

UNKNOWN_TOOL_NAME == "unknown-tool"
MAX_TOOL_INPUT_SIZE == 1048576
MAX_TOOL_INPUT_WARN == 102400
MAX_DELTA_CALC_SIZE == 10000

ZeroUsage == [inputTokens |-> 0, outputTokens |-> 0, totalTokens |-> 0]

NoEmittedError == [via |-> "none", error |-> NullError]

(***************************************************************************)
(* Stream parts enqueued on the controller.  Every part has the same        *)
(* fields; the ones a part type does not carry keep their default.          *)
(***************************************************************************)
Part(type) ==
  [type |-> type, id |-> NoId, toolName |-> "", text |-> EmptyStr,
   isError |-> FALSE, finishReason |-> "", usage |-> ZeroUsage,
   truncated |-> FALSE, sessionId |-> NoSession, error |-> NoEmittedError]

StreamStart == Part("stream-start")
\* text-start, text-delta, text-end, reasoning-start, reasoning-delta,
\* reasoning-end, tool-input-delta, tool-input-end: { type, id, delta }
IdPart(type, id, delta) == [Part(type) EXCEPT !.id = id, !.text = delta]
\* tool-input-start, tool-call, tool-result, tool-error:
\* { type, toolCallId, toolName, input, isError }
ToolPart(type, id, toolName, input, isError) ==
  [Part(type) EXCEPT !.id = id, !.toolName = toolName, !.text = input,
                     !.isError = isError]
ResponseMetadata(session) == [Part("response-metadata") EXCEPT !.sessionId = session]
Finish(finishReason, usage, session, truncated) ==
  [Part("finish") EXCEPT !.finishReason = finishReason, !.usage = usage,
                         !.sessionId = session, !.truncated = truncated]
ErrorPart(emitted) == [Part("error") EXCEPT !.error = emitted]

\* controller.enqueue
Enqueue(s, part) == [s EXCEPT !.out = Append(@, part)]

\* an exception leaves the handler; the statements after it are skipped
NotThrown == [isThrown |-> FALSE, error |-> NullError]
Throw(s, error) == [s EXCEPT !.thrown = [isThrown |-> TRUE, error |-> error]]

\* generateId()
generateId(s) == Gen(s.nextId + 1)
AfterGenerateId(s) == [s EXCEPT !.nextId = @ + 1]

(***************************************************************************)
(* toolStates is a Map in insertion order: a sequence of entries.           *)
(***************************************************************************)
Undefined == [defined |-> FALSE, v |-> EmptyStr]
Defined(v) == [defined |-> TRUE, v |-> v]

ToolStreamState(id, name, started, closed) ==
  [id |-> id, name |-> name, lastSerializedInput |-> Undefined,
   inputStarted |-> started, inputClosed |-> closed, callEmitted |-> FALSE]

HasTool(s, toolId) == \E i \in 1..Len(s.toolStates) : s.toolStates[i].id = toolId
\* a plausible slip: the state of the tool registered last, whatever the id
ToolIndex_latest(s, toolId) == Len(s.toolStates)

ToolIndex(s, toolId) == CHOOSE i \in 1..Len(s.toolStates) : s.toolStates[i].id = toolId

closeToolInput(s, toolId) ==
  LET i == ToolIndex(s, toolId)
      state == s.toolStates[i]
  IN  IF ~state.inputClosed /\ state.inputStarted
        THEN [Enqueue(s, IdPart("tool-input-end", toolId, EmptyStr))
                EXCEPT !.toolStates[i].inputClosed = TRUE]
        ELSE s

\* a plausible slip: the tool-call is emitted before the input is closed
emitToolCall_callFirst(s, toolId) ==
  LET i == ToolIndex(s, toolId)
      state == s.toolStates[i]
  IN  IF state.callEmitted THEN s
      ELSE LET input == IF state.lastSerializedInput.defined
                          THEN state.lastSerializedInput.v ELSE EmptyStr
               s1 == [Enqueue(s, ToolPart("tool-call", toolId, state.name, input, FALSE))
                        EXCEPT !.toolStates[i].callEmitted = TRUE]
           IN  closeToolInput(s1, toolId)

\* a plausible slip: the tool-call is emitted without closing the input
emitToolCall_noClose(s, toolId) ==
  LET i == ToolIndex(s, toolId)
      state == s.toolStates[i]
  IN  IF state.callEmitted THEN s
      ELSE LET input == IF state.lastSerializedInput.defined
                          THEN state.lastSerializedInput.v ELSE EmptyStr
           IN  [Enqueue(s, ToolPart("tool-call", toolId, state.name, input, FALSE))
                  EXCEPT !.toolStates[i].callEmitted = TRUE]

emitToolCall(s, toolId) ==
  LET i == ToolIndex(s, toolId)
      state == s.toolStates[i]
  IN  IF state.callEmitted THEN s
      ELSE LET s1 == closeToolInput(s, toolId)
               input == IF state.lastSerializedInput.defined
                          THEN state.lastSerializedInput.v ELSE EmptyStr
           IN  [Enqueue(s1, ToolPart("tool-call", toolId, state.name, input, FALSE))
                  EXCEPT !.toolStates[i].callEmitted = TRUE]

RECURSIVE EmitToolCallsFrom(_, _)
EmitToolCallsFrom(s, i) ==
  IF i > Len(s.toolStates) THEN s
  ELSE EmitToolCallsFrom(emitToolCall(s, s.toolStates[i].id), i + 1)

\* a plausible slip: the map is cleared without emitting the pending calls
finalizeToolCalls_clearOnly(s) == [s EXCEPT !.toolStates = <<>>]

finalizeToolCalls(s) == [EmitToolCallsFrom(s, 1) EXCEPT !.toolStates = <<>>]


(***************************************************************************)
(* JavaScript values carried as tool input or structured output:            *)
(* undefined, a string v, the object { arg: v }, or an object that          *)
(* JSON.stringify rejects (a circular structure).                           *)
(***************************************************************************)
JUndefined == [t |-> "undefined", v |-> EmptyStr]
JString(v) == [t |-> "string", v |-> v]
JObject(v) == [t |-> "object", v |-> v]
JCircular == [t |-> "circular", v |-> EmptyStr]

\* JSON.stringify(value) for a value it accepts
JSONstringify(value) ==
  IF value.t = "string"
    THEN StrCat(StrOf(<<"\"">>), StrCat(value.v, StrOf(<<"\"">>)))
    ELSE StrCat(StrOf(<<"{","\"","a","r","g","\"",":","\"">>),
                StrCat(value.v, StrOf(<<"\"","}">>)))

Returned(v) == [threw |-> FALSE, value |-> v, error |-> NullError, warned |-> FALSE]
Raised(error) == [threw |-> TRUE, value |-> EmptyStr, error |-> error, warned |-> FALSE]

\* a plausible slip: the warning threshold is used as the limit
checkInputSize_limitAtWarn(str) ==
  IF StrLen(str) > MAX_TOOL_INPUT_WARN
    THEN Raised(MkError("Error", JsStr(NameError),
                        JsStr(<<"T","o","o","l"," ","i","n","p","u","t"," ","e","x","c","e","e","d","s"," ",
                                "m","a","x","i","m","u","m"," ","s","i","z","e">>),
                        NotStr, NotNum))
    ELSE Returned(str)

\* warned: this.logger.warn('Large tool input detected ...') was called
checkInputSize(str) ==
  IF StrLen(str) > MAX_TOOL_INPUT_SIZE
    THEN Raised(MkError("Error", JsStr(NameError),
                        \* 'Tool input exceeds maximum size'
                        JsStr(<<"T","o","o","l"," ","i","n","p","u","t"," ","e","x","c","e","e","d","s"," ",
                                "m","a","x","i","m","u","m"," ","s","i","z","e">>),
                        NotStr, NotNum))
    ELSE [Returned(str) EXCEPT !.warned = StrLen(str) > MAX_TOOL_INPUT_WARN]

serializeToolInput(input) ==
  IF input.t = "string" THEN checkInputSize(input.v)
  ELSE IF input.t = "undefined" THEN Returned(EmptyStr)
  ELSE IF input.t = "circular" THEN checkInputSize(
      StrOf(<<"[","o","b","j","e","c","t"," ","O","b","j","e","c","t","]">>))   \* '[object Object]'
  ELSE checkInputSize(JSONstringify(input))

(***************************************************************************)
(* Content parts of assistant and user messages.                            *)
(***************************************************************************)
ContentPart(type) ==
  [type |-> type, id |-> NoId, name |-> "", input |-> JUndefined,
   text |-> EmptyStr, isError |-> FALSE]

TextPart(text) == [ContentPart("text") EXCEPT !.text = text]
ThinkingPart(text) == [ContentPart("thinking") EXCEPT !.text = text]
ToolUsePart(id, name, input) ==
  [ContentPart("tool_use") EXCEPT !.id = id, !.name = name, !.input = input]
ToolResultPart(id, name, isError) ==
  [ContentPart("tool_result") EXCEPT !.id = id, !.name = name, !.isError = isError]
ToolErrorPart(id, name) ==
  [ContentPart("tool_error") EXCEPT !.id = id, !.name = name]

\* content.filter(type).map(...): the parts of one type, ids filled in by
\* generateId() where missing; n is the number of ids generated before
RECURSIVE ExtractParts(_, _, _)
ExtractParts(content, type, n) ==
  IF content = <<>> THEN <<>>
  ELSE IF Head(content).type # type THEN ExtractParts(Tail(content), type, n)
  ELSE IF Head(content).id = NoId
    THEN <<[Head(content) EXCEPT !.id = Gen(n + 1)]>>
           \o ExtractParts(Tail(content), type, n + 1)
    ELSE <<Head(content)>> \o ExtractParts(Tail(content), type, n)

GeneratedIn(parts) == Cardinality({i \in 1..Len(parts) : parts[i].id.src = "generated"})

extractToolUses(content, n) ==
  LET parts == ExtractParts(content, "tool_use", n)
  IN  [i \in 1..Len(parts) |->
        [id |-> parts[i].id,
         name |-> IF parts[i].name # "" THEN parts[i].name ELSE UNKNOWN_TOOL_NAME,
         input |-> parts[i].input]]

\* name is "" where the source has undefined
extractToolResults(content, n) ==
  LET parts == ExtractParts(content, "tool_result", n)
  IN  [i \in 1..Len(parts) |->
        [id |-> parts[i].id, name |-> parts[i].name, isError |-> parts[i].isError]]

extractToolErrors(content, n) ==
  LET parts == ExtractParts(content, "tool_error", n)
  IN  [i \in 1..Len(parts) |-> [id |-> parts[i].id, name |-> parts[i].name]]

RECURSIVE JoinText(_)
JoinText(content) ==
  IF content = <<>> THEN EmptyStr
  ELSE IF Head(content).type = "text"
    THEN StrCat(Head(content).text, JoinText(Tail(content)))
    ELSE JoinText(Tail(content))

RECURSIVE ThinkingOf(_)
ThinkingOf(content) ==
  IF content = <<>> THEN <<>>
  ELSE IF Head(content).type = "thinking"
    THEN <<Head(content).text>> \o ThinkingOf(Tail(content))
    ELSE ThinkingOf(Tail(content))

extractTextAndThinking(content) ==
  [text |-> JoinText(content), thinking |-> ThinkingOf(content)]


(***************************************************************************)
(* Upstream messages (SDKMessage).  Every message has the same fields; the  *)
(* ones a message type does not carry keep their default.                   *)
(***************************************************************************)
RawUsage(input, cacheCreation, cacheRead, output) ==
  [input_tokens |-> input, cache_creation_input_tokens |-> cacheCreation,
   cache_read_input_tokens |-> cacheRead, output_tokens |-> output]

NoUsage == RawUsage(NotNum, NotNum, NotNum, NotNum)

Msg(type) ==
  [type |-> type, subtype |-> "", hasContent |-> FALSE, content |-> <<>>,
   eventType |-> "", deltaType |-> "", deltaText |-> EmptyStr,
   session_id |-> NoSession, hasUsage |-> FALSE, usage |-> NoUsage,
   structured_output |-> JUndefined, error |-> NullError]

StreamEventMsg(eventType, deltaType, deltaText) ==
  [Msg("stream_event") EXCEPT !.eventType = eventType, !.deltaType = deltaType,
                              !.deltaText = deltaText]
AssistantMsg(content) == [Msg("assistant") EXCEPT !.hasContent = TRUE, !.content = content]
UserMsg(content) == [Msg("user") EXCEPT !.hasContent = TRUE, !.content = content]
ResultMsg(subtype, session, hasUsage, usage, structured) ==
  [Msg("result") EXCEPT !.subtype = subtype, !.session_id = session,
                        !.hasUsage = hasUsage, !.usage = usage,
                        !.structured_output = structured]
SystemMsg(subtype, session) ==
  [Msg("system") EXCEPT !.subtype = subtype, !.session_id = session]

\* x ?? 0
OrZero(x) == IF x.isNumber THEN x.v ELSE 0

\* a plausible slip: the cache tokens are left out of the input count
UsageOf_uncached(u) ==
  [inputTokens |-> OrZero(u.input_tokens),
   outputTokens |-> OrZero(u.output_tokens),
   totalTokens |-> OrZero(u.cache_creation_input_tokens)
                     + OrZero(u.cache_read_input_tokens) + OrZero(u.input_tokens)
                     + OrZero(u.output_tokens)]

\* usage = { inputTokens, outputTokens, totalTokens } of a result message
UsageOf(u) ==
  [inputTokens |-> OrZero(u.cache_creation_input_tokens)
                     + OrZero(u.cache_read_input_tokens) + OrZero(u.input_tokens),
   outputTokens |-> OrZero(u.output_tokens),
   totalTokens |-> OrZero(u.cache_creation_input_tokens)
                     + OrZero(u.cache_read_input_tokens) + OrZero(u.input_tokens)
                     + OrZero(u.output_tokens)]

mapClaudeCodeFinishReason(subtype) ==
  IF subtype = "success" THEN "stop"
  ELSE IF subtype = "error_max_turns" THEN "length"
  ELSE IF subtype = "error_during_execution" THEN "error"
  ELSE "stop"

StructuredOutputRetriesError ==
  MkError("Error", JsStr(NameError),
          \* 'Failed to generate valid structured output after maximum retries.
          \*  The model could not produce a response matching the required schema.'
          JsStr(<<"F","a","i","l","e","d"," ","t","o"," ","g","e","n","e",
                  "r","a","t","e"," ","v","a","l","i","d"," ","s","t","r",
                  "u","c","t","u","r","e","d"," ","o","u","t","p","u","t",
                  " ","a","f","t","e","r"," ","m","a","x","i","m","u","m",
                  " ","r","e","t","r","i","e","s","."," ","T","h","e"," ",
                  "m","o","d","e","l"," ","c","o","u","l","d"," ","n","o",
                  "t"," ","p","r","o","d","u","c","e"," ","a"," ","r","e",
                  "s","p","o","n","s","e"," ","m","a","t","c","h","i","n",
                  "g"," ","t","h","e"," ","r","e","q","u","i","r","e","d",
                  " ","s","c","h","e","m","a",".">>),
          NotStr, NotNum)

(***************************************************************************)
(* doStream: the handlers of the message loop.  s is the invocation's       *)
(* state with this.sessionId in s.sessionId.                                *)
(***************************************************************************)
\* if (!textPartId) { textPartId = generateId(); enqueue text-start }
EnsureTextStart(s) ==
  IF s.textPartId = NoId
    THEN Enqueue([AfterGenerateId(s) EXCEPT !.textPartId = generateId(s)],
                 IdPart("text-start", generateId(s), EmptyStr))
    ELSE s

\* a complete text block with a fresh id
EmitTextBlock(s, text) ==
  LET id == generateId(s)
  IN  Enqueue(Enqueue(Enqueue(AfterGenerateId(s), IdPart("text-start", id, EmptyStr)),
                      IdPart("text-delta", id, text)), IdPart("text-end", id, EmptyStr))

\* a plausible slip: partial-token text is streamed in JSON mode as well
HandleStreamEvent_textInJson(s, m) ==
  LET isTextDelta == /\ m.eventType = "content_block_delta"
                     /\ m.deltaType = "text_delta"
                     /\ m.deltaText # EmptyStr
      isJsonDelta == /\ m.eventType = "content_block_delta"
                     /\ m.deltaType = "input_json_delta"
                     /\ m.deltaText # EmptyStr
      accumulate(t) == [t EXCEPT !.accumulatedText = StrCat(@, m.deltaText),
                                 !.streamedTextLength = @ + StrLen(m.deltaText)]
  IN  IF isTextDelta
        THEN LET s1 == [s EXCEPT !.hasReceivedStreamEvents = TRUE]
             IN  LET s2 == EnsureTextStart(s1)
                 IN  accumulate(Enqueue(s2, IdPart("text-delta", s2.textPartId, m.deltaText)))
      ELSE IF isJsonDelta
        THEN LET s1 == [s EXCEPT !.hasReceivedStreamEvents = TRUE]
             IN  IF s1.jsonMode
                   THEN LET s2 == EnsureTextStart(s1)
                        IN  accumulate(Enqueue(s2, IdPart("text-delta", s2.textPartId, m.deltaText)))
                   ELSE s1
      ELSE s

HandleStreamEvent(s, m) ==
  LET isTextDelta == /\ m.eventType = "content_block_delta"
                     /\ m.deltaType = "text_delta"
                     /\ m.deltaText # EmptyStr
      isJsonDelta == /\ m.eventType = "content_block_delta"
                     /\ m.deltaType = "input_json_delta"
                     /\ m.deltaText # EmptyStr
      accumulate(t) == [t EXCEPT !.accumulatedText = StrCat(@, m.deltaText),
                                 !.streamedTextLength = @ + StrLen(m.deltaText)]
  IN  IF isTextDelta
        THEN LET s1 == [s EXCEPT !.hasReceivedStreamEvents = TRUE]
             IN  IF s1.jsonMode THEN accumulate(s1)
                 ELSE LET s2 == EnsureTextStart(s1)
                      IN  accumulate(Enqueue(s2, IdPart("text-delta", s2.textPartId, m.deltaText)))
      ELSE IF isJsonDelta
        THEN LET s1 == [s EXCEPT !.hasReceivedStreamEvents = TRUE]
             IN  IF s1.jsonMode
                   THEN LET s2 == EnsureTextStart(s1)
                        IN  accumulate(Enqueue(s2, IdPart("text-delta", s2.textPartId, m.deltaText)))
                   ELSE s1
      ELSE s

\* a plausible slip: an input that does not extend the previous one is sent
\* whole as a delta
ToolUseStep_deltaOnReplace(s, tool) ==
  LET s1 == IF HasTool(s, tool.id) THEN s
            ELSE [s EXCEPT !.toolStates =
                    Append(@, ToolStreamState(tool.id, tool.name, FALSE, FALSE))]
      i == ToolIndex(s1, tool.id)
      s2 == [s1 EXCEPT !.toolStates[i].name = tool.name]
      s3 == IF ~s2.toolStates[i].inputStarted
              THEN [Enqueue(s2, ToolPart("tool-input-start", tool.id, tool.name, EmptyStr, FALSE))
                      EXCEPT !.toolStates[i].inputStarted = TRUE]
              ELSE s2
      serialized == serializeToolInput(tool.input)
      serializedInput == serialized.value
      last == s3.toolStates[i].lastSerializedInput
      deltaPayload ==
        IF ~last.defined
          THEN IF StrLen(serializedInput) <= MAX_DELTA_CALC_SIZE
                 THEN serializedInput ELSE EmptyStr
        ELSE IF /\ StrLen(serializedInput) <= MAX_DELTA_CALC_SIZE
                /\ StrLen(last.v) <= MAX_DELTA_CALC_SIZE
                /\ StrStartsWith(serializedInput, last.v)
          THEN StrSlice(serializedInput, StrLen(last.v))
        ELSE serializedInput
      s4 == IF deltaPayload # EmptyStr
              THEN Enqueue(s3, IdPart("tool-input-delta", tool.id, deltaPayload))
              ELSE s3
  IN  IF serialized.threw THEN Throw(s3, serialized.error)
      ELSE IF serializedInput = EmptyStr THEN s3
      ELSE [s4 EXCEPT !.toolStates[i].lastSerializedInput = Defined(serializedInput)]

\* a plausible slip: an extension is emitted whole, not from the previous
\* length on
ToolUseStep_wholeDelta(s, tool) ==
  LET s1 == IF HasTool(s, tool.id) THEN s
            ELSE [s EXCEPT !.toolStates =
                    Append(@, ToolStreamState(tool.id, tool.name, FALSE, FALSE))]
      i == ToolIndex(s1, tool.id)
      s2 == [s1 EXCEPT !.toolStates[i].name = tool.name]
      s3 == IF ~s2.toolStates[i].inputStarted
              THEN [Enqueue(s2, ToolPart("tool-input-start", tool.id, tool.name, EmptyStr, FALSE))
                      EXCEPT !.toolStates[i].inputStarted = TRUE]
              ELSE s2
      serialized == serializeToolInput(tool.input)
      serializedInput == serialized.value
      last == s3.toolStates[i].lastSerializedInput
      deltaPayload ==
        IF ~last.defined
          THEN IF StrLen(serializedInput) <= MAX_DELTA_CALC_SIZE
                 THEN serializedInput ELSE EmptyStr
        ELSE IF /\ StrLen(serializedInput) <= MAX_DELTA_CALC_SIZE
                /\ StrLen(last.v) <= MAX_DELTA_CALC_SIZE
                /\ StrStartsWith(serializedInput, last.v)
          THEN serializedInput
        ELSE EmptyStr
      s4 == IF deltaPayload # EmptyStr
              THEN Enqueue(s3, IdPart("tool-input-delta", tool.id, deltaPayload))
              ELSE s3
  IN  IF serialized.threw THEN Throw(s3, serialized.error)
      ELSE IF serializedInput = EmptyStr THEN s3
      ELSE [s4 EXCEPT !.toolStates[i].lastSerializedInput = Defined(serializedInput)]

\* one iteration of: for (const tool of this.extractToolUses(content))
ToolUseStep(s, tool) ==
  LET s1 == IF HasTool(s, tool.id) THEN s
            ELSE [s EXCEPT !.toolStates =
                    Append(@, ToolStreamState(tool.id, tool.name, FALSE, FALSE))]
      i == ToolIndex(s1, tool.id)
      s2 == [s1 EXCEPT !.toolStates[i].name = tool.name]
      s3 == IF ~s2.toolStates[i].inputStarted
              THEN [Enqueue(s2, ToolPart("tool-input-start", tool.id, tool.name, EmptyStr, FALSE))
                      EXCEPT !.toolStates[i].inputStarted = TRUE]
              ELSE s2
      serialized == serializeToolInput(tool.input)
      serializedInput == serialized.value
      last == s3.toolStates[i].lastSerializedInput
      deltaPayload ==
        IF ~last.defined
          THEN IF StrLen(serializedInput) <= MAX_DELTA_CALC_SIZE
                 THEN serializedInput ELSE EmptyStr
        ELSE IF /\ StrLen(serializedInput) <= MAX_DELTA_CALC_SIZE
                /\ StrLen(last.v) <= MAX_DELTA_CALC_SIZE
                /\ StrStartsWith(serializedInput, last.v)
          THEN StrSlice(serializedInput, StrLen(last.v))
        ELSE EmptyStr
      s4 == IF deltaPayload # EmptyStr
              THEN Enqueue(s3, IdPart("tool-input-delta", tool.id, deltaPayload))
              ELSE s3
  IN  IF serialized.threw THEN Throw(s3, serialized.error)
      ELSE IF serializedInput = EmptyStr THEN s3
      ELSE [s4 EXCEPT !.toolStates[i].lastSerializedInput = Defined(serializedInput)]

RECURSIVE ToolUseLoop(_, _)
ToolUseLoop(s, tools) ==
  IF tools = <<>> \/ s.thrown.isThrown THEN s
  ELSE ToolUseLoop(ToolUseStep(s, Head(tools)), Tail(tools))

\* a plausible slip: reasoningPartId is not reset after reasoning-end
ReasoningStep_noReset(s, thinkingText) ==
  LET s1 == [s EXCEPT !.thinkingTraces = Append(@, thinkingText)]
      s2 == IF s1.reasoningPartId = NoId
              THEN Enqueue([AfterGenerateId(s1) EXCEPT !.reasoningPartId = generateId(s1)],
                           IdPart("reasoning-start", generateId(s1), EmptyStr))
              ELSE s1
      s3 == Enqueue(s2, IdPart("reasoning-delta", s2.reasoningPartId, thinkingText))
      s4 == Enqueue(s3, IdPart("reasoning-end", s2.reasoningPartId, EmptyStr))
  IN  s4

\* one iteration of: for (const thinkingText of thinking)
ReasoningStep(s, thinkingText) ==
  LET s1 == [s EXCEPT !.thinkingTraces = Append(@, thinkingText)]
      s2 == IF s1.reasoningPartId = NoId
              THEN Enqueue([AfterGenerateId(s1) EXCEPT !.reasoningPartId = generateId(s1)],
                           IdPart("reasoning-start", generateId(s1), EmptyStr))
              ELSE s1
      s3 == Enqueue(s2, IdPart("reasoning-delta", s2.reasoningPartId, thinkingText))
      s4 == Enqueue(s3, IdPart("reasoning-end", s2.reasoningPartId, EmptyStr))
  IN  [s4 EXCEPT !.reasoningPartId = NoId]

RECURSIVE ReasoningLoop(_, _)
ReasoningLoop(s, thinking) ==
  IF thinking = <<>> THEN s
  ELSE ReasoningLoop(ReasoningStep(s, Head(thinking)), Tail(thinking))

\* a plausible slip: the cumulative text is emitted whole, not from
\* streamedTextLength on
AssistantText_noDedup(s, text) ==
  IF text = EmptyStr THEN s
  ELSE IF s.hasReceivedStreamEvents
    THEN LET s1 == [s EXCEPT !.accumulatedText = text]
             s2 == IF ~s1.jsonMode
                     THEN LET s3 == EnsureTextStart(s1)
                          IN  Enqueue(s3, IdPart("text-delta", s3.textPartId, text))
                     ELSE s1
         IN  [s2 EXCEPT !.streamedTextLength = StrLen(text)]
    ELSE LET s1 == [s EXCEPT !.accumulatedText = StrCat(@, text)]
         IN  IF ~s1.jsonMode
               THEN LET s2 == EnsureTextStart(s1)
                    IN  Enqueue(s2, IdPart("text-delta", s2.textPartId, text))
               ELSE s1

\* if (text) { ... }
AssistantText(s, text) ==
  IF text = EmptyStr THEN s
  ELSE IF s.hasReceivedStreamEvents
    THEN LET newTextStart == s.streamedTextLength
             deltaText == IF StrLen(text) > newTextStart
                            THEN StrSlice(text, newTextStart) ELSE EmptyStr
             s1 == [s EXCEPT !.accumulatedText = text]
             s2 == IF ~s1.jsonMode /\ deltaText # EmptyStr
                     THEN LET s3 == EnsureTextStart(s1)
                          IN  Enqueue(s3, IdPart("text-delta", s3.textPartId, deltaText))
                     ELSE s1
         IN  [s2 EXCEPT !.streamedTextLength = StrLen(text)]
    ELSE LET s1 == [s EXCEPT !.accumulatedText = StrCat(@, text)]
         IN  IF ~s1.jsonMode
               THEN LET s2 == EnsureTextStart(s1)
                    IN  Enqueue(s2, IdPart("text-delta", s2.textPartId, text))
               ELSE s1

HandleAssistant(s, m) ==
  IF ~m.hasContent THEN s
  ELSE LET tools == extractToolUses(m.content, s.nextId)
           s1 == [s EXCEPT !.nextId = @ + GeneratedIn(tools)]
           s2 == ToolUseLoop(s1, tools)
           extracted == extractTextAndThinking(m.content)
       IN  IF s2.thrown.isThrown THEN s2
           ELSE AssistantText(ReasoningLoop(s2, extracted.thinking), extracted.text)


authErrorPatterns ==
  { <<"n","o","t"," ","l","o","g","g","e","d"," ","i","n">>,   \* 'not logged in'
    <<"a","u","t","h","e","n","t","i","c","a","t","i","o","n">>,   \* 'authentication'
    <<"u","n","a","u","t","h","o","r","i","z","e","d">>,   \* 'unauthorized'
    <<"a","u","t","h"," ","f","a","i","l","e","d">>,   \* 'auth failed'
    <<"p","l","e","a","s","e"," ","l","o","g","i","n">>,   \* 'please login'
    <<"c","l","a","u","d","e"," ","l","o","g","i","n">> }   \* 'claude login'

\* the error handed on: which constructor wrapped it, and the error wrapped
Emitted(via, error) == [via |-> via, error |-> error]

handleClaudeCodeError(error) ==
  LET errorMessage ==
        IF error.cls # "Null" /\ error.message.isString /\ error.message.chars # <<>>
          THEN toLowerCase(error.message.chars) ELSE <<>>
      isAuthError ==
        \/ \E pattern \in authErrorPatterns : includes(errorMessage, pattern)
        \/ error.cls # "Null" /\ error.exitCode.isNumber /\ error.exitCode.v = 401
      errorCode ==
        IF error.cls # "Null" /\ error.code.isString THEN error.code.chars ELSE <<>>
  IN  IF isAuthError THEN Emitted("createAuthenticationError", error)
      ELSE IF \/ errorCode = <<"E","T","I","M","E","D","O","U","T">>   \* 'ETIMEDOUT'
              \/ includes(errorMessage, <<"t","i","m","e","o","u","t">>)   \* 'timeout'
        THEN Emitted("createTimeoutError", error)
      ELSE IF errorCode \in
                { <<"E","N","O","E","N","T">>,   \* 'ENOENT'
                  <<"E","C","O","N","N","R","E","F","U","S","E","D">>,   \* 'ECONNREFUSED'
                  <<"E","T","I","M","E","D","O","U","T">>,   \* 'ETIMEDOUT'
                  <<"E","C","O","N","N","R","E","S","E","T">> }   \* 'ECONNRESET'
        THEN Emitted("createAPICallError-retryable", error)
      ELSE Emitted("createAPICallError", error)

\* a plausible slip: the tracked name wins over the name the echo carries
ToolResultStep_trackedFirst(s, result) ==
  LET known == HasTool(s, result.id)
      toolName == IF known THEN s.toolStates[ToolIndex(s, result.id)].name
                  ELSE IF result.name # "" THEN result.name
                  ELSE UNKNOWN_TOOL_NAME
      created == [s EXCEPT !.toolStates =
                    Append(@, ToolStreamState(result.id, toolName, FALSE, FALSE))]
      n == Len(created.toolStates)
      started == [Enqueue(created, ToolPart("tool-input-start", result.id, toolName, EmptyStr, FALSE))
                    EXCEPT !.toolStates[n].inputStarted = TRUE]
      closed == [Enqueue(started, IdPart("tool-input-end", result.id, EmptyStr))
                    EXCEPT !.toolStates[n].inputClosed = TRUE]
      s1 == IF known THEN s ELSE closed
      s2 == [s1 EXCEPT !.toolStates[ToolIndex(s1, result.id)].name = toolName]
      s3 == emitToolCall(s2, result.id)
  IN  Enqueue(s3, ToolPart("tool-result", result.id, toolName, EmptyStr, result.isError))

\* one iteration of: for (const result of this.extractToolResults(content))
ToolResultStep(s, result) ==
  LET known == HasTool(s, result.id)
      toolName == IF result.name # "" THEN result.name
                  ELSE IF known THEN s.toolStates[ToolIndex(s, result.id)].name
                  ELSE UNKNOWN_TOOL_NAME
      created == [s EXCEPT !.toolStates =
                    Append(@, ToolStreamState(result.id, toolName, FALSE, FALSE))]
      n == Len(created.toolStates)
      started == [Enqueue(created, ToolPart("tool-input-start", result.id, toolName, EmptyStr, FALSE))
                    EXCEPT !.toolStates[n].inputStarted = TRUE]
      closed == [Enqueue(started, IdPart("tool-input-end", result.id, EmptyStr))
                    EXCEPT !.toolStates[n].inputClosed = TRUE]
      s1 == IF known THEN s ELSE closed
      s2 == [s1 EXCEPT !.toolStates[ToolIndex(s1, result.id)].name = toolName]
      s3 == emitToolCall(s2, result.id)
  IN  Enqueue(s3, ToolPart("tool-result", result.id, toolName, EmptyStr, result.isError))

RECURSIVE ToolResultLoop(_, _)
ToolResultLoop(s, results) ==
  IF results = <<>> THEN s
  ELSE ToolResultLoop(ToolResultStep(s, Head(results)), Tail(results))

\* one iteration of: for (const error of this.extractToolErrors(content))
ToolErrorStep(s, error) ==
  LET known == HasTool(s, error.id)
      toolName == IF error.name # "" THEN error.name
                  ELSE IF known THEN s.toolStates[ToolIndex(s, error.id)].name
                  ELSE UNKNOWN_TOOL_NAME
      s1 == IF known THEN s
            ELSE [s EXCEPT !.toolStates =
                    Append(@, ToolStreamState(error.id, toolName, TRUE, TRUE))]
      s2 == emitToolCall(s1, error.id)
  IN  Enqueue(s2, ToolPart("tool-error", error.id, toolName, EmptyStr, FALSE))

RECURSIVE ToolErrorLoop(_, _)
ToolErrorLoop(s, errors) ==
  IF errors = <<>> THEN s
  ELSE ToolErrorLoop(ToolErrorStep(s, Head(errors)), Tail(errors))

HandleUser(s, m) ==
  IF ~m.hasContent THEN s
  ELSE LET results == extractToolResults(m.content, s.nextId)
           s1 == ToolResultLoop([s EXCEPT !.nextId = @ + GeneratedIn(results)], results)
           errors == extractToolErrors(m.content, s1.nextId)
       IN  ToolErrorLoop([s1 EXCEPT !.nextId = @ + GeneratedIn(errors)], errors)

\* this.setSessionId
setSessionId(s, session) == [s EXCEPT !.sessionId = session]

\* a plausible slip: the subtype of the result message is not examined
HandleResult_anySubtype(s, m) ==
  LET s0 == [s EXCEPT !.doneCalled = TRUE]
      s1 == IF m.hasUsage THEN [s0 EXCEPT !.usage = UsageOf(m.usage)] ELSE s0
      finishReason == mapClaudeCodeFinishReason(m.subtype)
      s2 == setSessionId(s1, m.session_id)
      structuredOutput == m.structured_output
      alreadyStreamedJson ==
        s2.textPartId # NoId /\ s2.jsonMode /\ s2.hasReceivedStreamEvents
      s3 == IF alreadyStreamedJson THEN Enqueue(s2, IdPart("text-end", s2.textPartId, EmptyStr))
            ELSE IF structuredOutput.t # "undefined"
              THEN EmitTextBlock(s2, JSONstringify(structuredOutput))
            ELSE IF s2.textPartId # NoId THEN Enqueue(s2, IdPart("text-end", s2.textPartId, EmptyStr))
            ELSE IF s2.accumulatedText # EmptyStr
              THEN EmitTextBlock(s2, s2.accumulatedText)
            ELSE s2
      s4 == finalizeToolCalls(s3)
  IN  Enqueue(s4, Finish(finishReason, s4.usage, m.session_id, FALSE))

\* a plausible slip: the structured-output payload is rendered before the
\* test for fragments already streamed
HandleResult_payloadFirst(s, m) ==
  LET s0 == [s EXCEPT !.doneCalled = TRUE]
      s1 == IF m.hasUsage THEN [s0 EXCEPT !.usage = UsageOf(m.usage)] ELSE s0
      finishReason == mapClaudeCodeFinishReason(m.subtype)
      s2 == setSessionId(s1, m.session_id)
      structuredOutput == m.structured_output
      alreadyStreamedJson ==
        s2.textPartId # NoId /\ s2.jsonMode /\ s2.hasReceivedStreamEvents
      s3 == IF structuredOutput.t # "undefined"
              THEN EmitTextBlock(s2, JSONstringify(structuredOutput))
            ELSE IF alreadyStreamedJson THEN Enqueue(s2, IdPart("text-end", s2.textPartId, EmptyStr))
            ELSE IF s2.textPartId # NoId THEN Enqueue(s2, IdPart("text-end", s2.textPartId, EmptyStr))
            ELSE IF s2.accumulatedText # EmptyStr
              THEN EmitTextBlock(s2, s2.accumulatedText)
            ELSE s2
      s4 == finalizeToolCalls(s3)
  IN  IF m.subtype = "error_max_structured_output_retries"
        THEN Throw(s0, StructuredOutputRetriesError)
        ELSE Enqueue(s4, Finish(finishReason, s4.usage, m.session_id, FALSE))

HandleResult(s, m) ==
  LET s0 == [s EXCEPT !.doneCalled = TRUE]
      s1 == IF m.hasUsage THEN [s0 EXCEPT !.usage = UsageOf(m.usage)] ELSE s0
      finishReason == mapClaudeCodeFinishReason(m.subtype)
      s2 == setSessionId(s1, m.session_id)
      structuredOutput == m.structured_output
      alreadyStreamedJson ==
        s2.textPartId # NoId /\ s2.jsonMode /\ s2.hasReceivedStreamEvents
      s3 == IF alreadyStreamedJson THEN Enqueue(s2, IdPart("text-end", s2.textPartId, EmptyStr))
            ELSE IF structuredOutput.t # "undefined"
              THEN EmitTextBlock(s2, JSONstringify(structuredOutput))
            ELSE IF s2.textPartId # NoId THEN Enqueue(s2, IdPart("text-end", s2.textPartId, EmptyStr))
            ELSE IF s2.accumulatedText # EmptyStr
              THEN EmitTextBlock(s2, s2.accumulatedText)
            ELSE s2
      s4 == finalizeToolCalls(s3)
  IN  IF m.subtype = "error_max_structured_output_retries"
        THEN Throw(s0, StructuredOutputRetriesError)
        ELSE Enqueue(s4, Finish(finishReason, s4.usage, m.session_id, FALSE))

\* a plausible slip: every system message is taken for the init message
HandleSystem_anySubtype(s, m) ==
  Enqueue(setSessionId(s, m.session_id), ResponseMetadata(m.session_id))

HandleSystem(s, m) ==
  IF m.subtype = "init"
    THEN Enqueue(setSessionId(s, m.session_id), ResponseMetadata(m.session_id))
    ELSE s

\* a plausible slip: the abort test comes before the truncation test, as in
\* doGenerate
Catch_abortFirst(s, error) ==
  LET s0 == [s EXCEPT !.doneCalled = TRUE, !.thrown = NotThrown]
      s1 == [s0 EXCEPT !.streamWarnings = Append(@, "CLAUDE_CODE_TRUNCATION_WARNING")]
      s2 == IF s1.textPartId # NoId THEN Enqueue(s1, IdPart("text-end", s1.textPartId, EmptyStr))
            ELSE IF s1.accumulatedText # EmptyStr
              THEN EmitTextBlock(s1, s1.accumulatedText)
            ELSE s1
      s3 == finalizeToolCalls(s2)
      s4 == Enqueue(s3, Finish("length", s3.usage, s3.sessionId, TRUE))
      t1 == finalizeToolCalls(s0)
      errorToEmit ==
        IF isAbortError(error)
          THEN IF s.abortSignal = "aborted"
                 THEN Emitted("abortSignal.reason", NullError)
                 ELSE Emitted("unchanged", error)
          ELSE handleClaudeCodeError(error)
  IN  IF ~isAbortError(error) /\ isClaudeCodeTruncationError(error, s0.accumulatedText)
        THEN [s4 EXCEPT !.pc = "closed"]
        ELSE [Enqueue(t1, ErrorPart(errorToEmit)) EXCEPT !.pc = "closed"]

\* a plausible slip: the recovery goes straight to the tools and the finish
Catch_textLeftOpen(s, error) ==
  LET s0 == [s EXCEPT !.doneCalled = TRUE, !.thrown = NotThrown]
      s1 == [s0 EXCEPT !.streamWarnings = Append(@, "CLAUDE_CODE_TRUNCATION_WARNING")]
      s2 == s1
      s3 == finalizeToolCalls(s2)
      s4 == Enqueue(s3, Finish("length", s3.usage, s3.sessionId, TRUE))
      t1 == finalizeToolCalls(s0)
      errorToEmit ==
        IF isAbortError(error)
          THEN IF s.abortSignal = "aborted"
                 THEN Emitted("abortSignal.reason", NullError)
                 ELSE Emitted("unchanged", error)
          ELSE handleClaudeCodeError(error)
  IN  IF isClaudeCodeTruncationError(error, s0.accumulatedText)
        THEN [s4 EXCEPT !.pc = "closed"]
        ELSE [Enqueue(t1, ErrorPart(errorToEmit)) EXCEPT !.pc = "closed"]

\* catch (error) { ... } of doStream
Catch(s, error) ==
  LET s0 == [s EXCEPT !.doneCalled = TRUE, !.thrown = NotThrown]
      s1 == [s0 EXCEPT !.streamWarnings = Append(@, "CLAUDE_CODE_TRUNCATION_WARNING")]
      s2 == IF s1.textPartId # NoId THEN Enqueue(s1, IdPart("text-end", s1.textPartId, EmptyStr))
            ELSE IF s1.accumulatedText # EmptyStr
              THEN EmitTextBlock(s1, s1.accumulatedText)
            ELSE s1
      s3 == finalizeToolCalls(s2)
      s4 == Enqueue(s3, Finish("length", s3.usage, s3.sessionId, TRUE))
      t1 == finalizeToolCalls(s0)
      errorToEmit ==
        IF isAbortError(error)
          THEN IF s.abortSignal = "aborted"
                 THEN Emitted("abortSignal.reason", NullError)
                 ELSE Emitted("unchanged", error)
          ELSE handleClaudeCodeError(error)
  IN  IF isClaudeCodeTruncationError(error, s0.accumulatedText)
        THEN [s4 EXCEPT !.pc = "closed"]
        ELSE [Enqueue(t1, ErrorPart(errorToEmit)) EXCEPT !.pc = "closed"]

\* after the loop: finalizeToolCalls(); controller.close()
AfterLoop(s) == [finalizeToolCalls(s) EXCEPT !.pc = "closed"]


(***************************************************************************)
(* doGenerate: the handlers of the message loop, the catch block and the    *)
(* assembly of the returned value.  g is the invocation's state with        *)
(* this.sessionId in g.sessionId.                                           *)
(***************************************************************************)
NoResult ==
  [text |-> EmptyStr, reasoning |-> <<>>, usage |-> ZeroUsage, finishReason |-> "",
   warnings |-> <<>>, sessionId |-> NoSession, truncated |-> FALSE]

GenAssistant(g, m) ==
  LET extracted == extractTextAndThinking(m.content)
  IN  [g EXCEPT !.text = StrCat(@, extracted.text),
                !.thinkingTraces = @ \o extracted.thinking]

GenResult(g, m) ==
  LET g0 == setSessionId([g EXCEPT !.doneCalled = TRUE], m.session_id)
      g1 == IF m.structured_output.t # "undefined"
              THEN [g0 EXCEPT !.structuredOutput = m.structured_output] ELSE g0
      g2 == IF m.hasUsage THEN [g1 EXCEPT !.usage = UsageOf(m.usage)] ELSE g1
  IN  IF m.subtype = "error_max_structured_output_retries"
        THEN Throw(g0, StructuredOutputRetriesError)
        ELSE [g2 EXCEPT !.finishReason = mapClaudeCodeFinishReason(m.subtype)]

GenSystem(g, m) == IF m.subtype = "init" THEN setSessionId(g, m.session_id) ELSE g

\* the statements after try/catch/finally: build the returned value
GenReturn(g) ==
  LET finalText == IF g.structuredOutput.t # "undefined"
                     THEN JSONstringify(g.structuredOutput) ELSE g.text
  IN  [g EXCEPT !.pc = "returned",
                !.result = [text |-> finalText, reasoning |-> g.thinkingTraces,
                            usage |-> g.usage, finishReason |-> g.finishReason,
                            warnings |-> g.warnings, sessionId |-> g.sessionId,
                            truncated |-> g.wasTruncated]]

GenRaise(g, emitted) == [g EXCEPT !.pc = "thrown", !.error = emitted]

\* a plausible slip: an abort error is handed to the unified error handler
GenCatch_wrapAbort(g, error) ==
  LET g0 == [g EXCEPT !.doneCalled = TRUE, !.thrown = NotThrown]
  IN  IF isClaudeCodeTruncationError(error, g0.text)
        THEN GenReturn([g0 EXCEPT !.wasTruncated = TRUE, !.finishReason = "length",
                                  !.warnings = Append(@, "CLAUDE_CODE_TRUNCATION_WARNING")])
      ELSE GenRaise(g0, handleClaudeCodeError(error))

\* catch (error) { ... } of doGenerate, then the return if it recovers
GenCatch(g, error) ==
  LET g0 == [g EXCEPT !.doneCalled = TRUE, !.thrown = NotThrown]
  IN  IF isAbortError(error)
        THEN GenRaise(g0, IF g.abortSignal = "aborted"
                            THEN Emitted("abortSignal.reason", NullError)
                            ELSE Emitted("unchanged", error))
      ELSE IF isClaudeCodeTruncationError(error, g0.text)
        THEN GenReturn([g0 EXCEPT !.wasTruncated = TRUE, !.finishReason = "length",
                                  !.warnings = Append(@, "CLAUDE_CODE_TRUNCATION_WARNING")])
      ELSE GenRaise(g0, handleClaudeCodeError(error))


(***************************************************************************)
(* Inputs.  Strings, tool ids, session ids, messages and errors the         *)
(* upstream is allowed to produce in the checked runs.                      *)
(***************************************************************************)
StrA == Rep("a", 1)
StrB == Rep("b", 1)
StrAB == StrCat(StrA, StrB)
StrAlmostFloor == Rep("a", MIN_TRUNCATION_LENGTH - 1)
StrFloor == Rep("a", MIN_TRUNCATION_LENGTH)
StrOverDelta == Rep("a", MAX_DELTA_CALC_SIZE + 1)
StrOverLimit == Rep("a", MAX_TOOL_INPUT_SIZE + 1)

T1 == Up(1)
T2 == Up(2)

TextDeltaEvent(text) == StreamEventMsg("content_block_delta", "text_delta", text)
JsonDeltaEvent(text) == StreamEventMsg("content_block_delta", "input_json_delta", text)

Usage1 == RawUsage(JsNum(3), JsNum(2), JsNum(1), JsNum(4))
Usage2 == RawUsage(JsNum(5), NotNum, NotNum, JsNum(1))

Success1 == ResultMsg("success", "s1", TRUE, Usage1, JUndefined)
Success2 == ResultMsg("success", "s2", TRUE, Usage2, JObject(StrA))
MaxTurns == ResultMsg("error_max_turns", "s1", TRUE, Usage2, JUndefined)
StructuredRetries ==
  ResultMsg("error_max_structured_output_retries", "s1", TRUE, Usage1, JUndefined)

ErrTruncation ==
  MkError("SyntaxError", JsStr(NameSyntaxError), JsStr(MsgEndOfJsonInput), NotStr, NotNum)
ErrUnterminated ==
  MkError("Object",
          JsStr(<<"S","Y","N","T","A","X","E","R","R","O","R">>),   \* 'SYNTAXERROR'
          JsStr(MsgUnterminated), NotStr, NotNum)
ErrUnexpectedToken ==
  MkError("SyntaxError", JsStr(NameSyntaxError), JsStr(MsgUnexpectedToken), NotStr, NotNum)
ErrBoom ==
  MkError("Error", JsStr(NameError), JsStr(<<"b","o","o","m">>), NotStr, NotNum)
ErrAbort ==
  MkError("Error", JsStr(NameAbortError),
          JsStr(<<"O","p","e","r","a","t","i","o","n"," ","a","b","o","r","t","e","d">>),   \* 'Operation aborted'
          NotStr, NotNum)
ErrTruncationAbortCode ==
  MkError("SyntaxError", JsStr(NameSyntaxError), JsStr(MsgEndOfJsonInput),
          JsStr(<<"a","b","o","r","t","_","e","r","r">>), NotNum)   \* 'abort_err'
ErrNotLoggedIn ==
  MkError("Error", JsStr(NameError),
          JsStr(<<"N","o","t"," ","l","o","g","g","e","d"," ","i","n">>),   \* 'Not logged in'
          NotStr, JsNum(1))
ErrTimeout ==
  MkError("Error", JsStr(NameError),
          JsStr(<<"R","e","q","u","e","s","t"," ","t","i","m","e","o","u","t">>),   \* 'Request timeout'
          NotStr, NotNum)


(***************************************************************************)
(* State.  hist is the history of what the upstream iterator has produced   *)
(* for the invocation: the messages in order, then "throw" or "end".        *)
(***************************************************************************)
ThrowEntry(error) == [Msg("throw") EXCEPT !.error = error]
EndEntry == Msg("end")

\* this.settings with nothing configured
NoSettings == [resume |-> NoSession]

\* the options handed to query(): resume: this.settings.resume ?? this.sessionId
createQueryOptions(instanceSettings, instanceSessionId) ==
  [resume |-> IF instanceSettings.resume # NoSession
                THEN instanceSettings.resume ELSE instanceSessionId]

\* sdkPrompt when streaming input is not used: the prompt is a string
NoInputIterable == [pos |-> "none", yielded |-> 0]

\* the iterable toAsyncIterablePrompt returns, before the upstream pulls
toAsyncIterablePrompt == [pos |-> "created", yielded |-> 0]

\* a plausible slip: the generator returns after the yield without awaiting
InputIteratorNext_noAwait(it, ended) ==
  IF it.pos = "created" THEN [pos |-> "yielded", yielded |-> it.yielded + 1]
  ELSE IF it.pos = "yielded" THEN [it EXCEPT !.pos = "completed"]
  ELSE it

\* next() on the iterator of the iterable: yield msg; await outputStreamEnded
InputIteratorNext(it, ended) ==
  IF it.pos = "created" THEN [pos |-> "yielded", yielded |-> it.yielded + 1]
  ELSE IF it.pos = "yielded"
    THEN [it EXCEPT !.pos = IF ended THEN "completed" ELSE "awaiting"]
  ELSE it

\* the closure of start(controller) once query() has been called
StreamInit(jsonMode) ==
  [pc |-> "loop", jsonMode |-> jsonMode, abortSignal |-> "idle",
   out |-> <<StreamStart>>, doneCalled |-> FALSE, sdkPrompt |-> NoInputIterable,
   toolStates |-> <<>>,
   streamWarnings |-> <<>>, thinkingTraces |-> <<>>, usage |-> ZeroUsage,
   accumulatedText |-> EmptyStr, textPartId |-> NoId, streamedTextLength |-> 0,
   hasReceivedStreamEvents |-> FALSE, reasoningPartId |-> NoId, nextId |-> 0,
   sessionId |-> NoSession, thrown |-> NotThrown, hist |-> <<>>,
   queryOptions |-> createQueryOptions(NoSettings, NoSession)]

StreamIdle == [StreamInit(FALSE) EXCEPT !.pc = "idle", !.out = <<>>]

\* the locals of doGenerate once query() has been called
GenInit ==
  [pc |-> "loop", abortSignal |-> "idle", text |-> EmptyStr, thinkingTraces |-> <<>>,
   structuredOutput |-> JUndefined, usage |-> ZeroUsage, finishReason |-> "stop",
   wasTruncated |-> FALSE, warnings |-> <<>>, doneCalled |-> FALSE,
   sdkPrompt |-> NoInputIterable,
   sessionId |-> NoSession, thrown |-> NotThrown, result |-> NoResult,
   error |-> NoEmittedError, hist |-> <<>>,
   queryOptions |-> createQueryOptions(NoSettings, NoSession)]

GenIdle == [GenInit EXCEPT !.pc = "idle"]

ProbeIdle ==
  [phase |-> "idle", error |-> NullError, bufferedText |-> EmptyStr, result |-> FALSE]

(***************************************************************************)
(* Actions of doStream: one per branch of the message loop, one for the     *)
(* upstream iterator throwing and one for its completion.  An exception     *)
(* thrown inside a branch runs the catch block in the same step.            *)
(***************************************************************************)
WithSession(s) == [s EXCEPT !.sessionId = sessionId]

Settle(r) == IF r.thrown.isThrown THEN Catch(r, r.thrown.error) ELSE r

StreamCommit(r, entry) ==
  /\ stream' = [Settle(r) EXCEPT !.hist = Append(stream.hist, entry)]
  /\ sessionId' = Settle(r).sessionId
  /\ UNCHANGED <<gen, probe, settings>>

StreamReceives(max) == stream.pc = "loop" /\ Len(stream.hist) < max

OnStreamEvent(msgs, max) ==
  /\ StreamReceives(max)
  /\ \E m \in msgs : StreamCommit(HandleStreamEvent(WithSession(stream), m), m)

OnAssistant(msgs, max) ==
  /\ StreamReceives(max)
  /\ \E m \in msgs : StreamCommit(HandleAssistant(WithSession(stream), m), m)

OnUser(msgs, max) ==
  /\ StreamReceives(max)
  /\ \E m \in msgs : StreamCommit(HandleUser(WithSession(stream), m), m)

OnResult(msgs, max) ==
  /\ StreamReceives(max)
  /\ \E m \in msgs : StreamCommit(HandleResult(WithSession(stream), m), m)

OnSystem(msgs, max) ==
  /\ StreamReceives(max)
  /\ \E m \in msgs : StreamCommit(HandleSystem(WithSession(stream), m), m)

\* a message of a type no branch matches
OnOther(msgs, max) ==
  /\ StreamReceives(max)
  /\ \E m \in msgs : StreamCommit(WithSession(stream), m)

UpstreamThrows(errors) ==
  /\ stream.pc = "loop"
  /\ \E e \in errors : StreamCommit(Catch(WithSession(stream), e), ThrowEntry(e))

UpstreamEnds ==
  /\ stream.pc = "loop"
  /\ StreamCommit(AfterLoop(WithSession(stream)), EndEntry)


(***************************************************************************)
(* Spec: doStream over upstream sequences that mix every message type.      *)
(***************************************************************************)
MaxMsgs == 3

Inputs ==
  [ streamEvents |->
      { TextDeltaEvent(StrA), TextDeltaEvent(StrFloor), JsonDeltaEvent(StrA) },
    assistant |->
      { AssistantMsg(<<TextPart(StrAB)>>),
        AssistantMsg(<<ThinkingPart(StrA)>>),
        AssistantMsg(<<ToolUsePart(T1, "Bash", JString(StrA))>>) },
    user |->
      { UserMsg(<<ToolResultPart(T1, "", FALSE)>>),
        UserMsg(<<ToolErrorPart(T2, "Read")>>) },
    result |->
      { Success1, StructuredRetries },
    system |->
      { SystemMsg("init", "s1") },
    other |->
      { Msg("tool_progress") },
    errors |->
      { ErrTruncation, ErrBoom, ErrAbort } ]

Init ==
  /\ sessionId = NoSession
  /\ settings = NoSettings
  /\ stream \in { StreamInit(jsonMode) : jsonMode \in BOOLEAN }
  /\ gen = GenIdle
  /\ probe = ProbeIdle

Next ==
  \/ OnStreamEvent(Inputs.streamEvents, MaxMsgs)
  \/ OnAssistant(Inputs.assistant, MaxMsgs)
  \/ OnUser(Inputs.user, MaxMsgs)
  \/ OnResult(Inputs.result, MaxMsgs)
  \/ OnSystem(Inputs.system, MaxMsgs)
  \/ OnOther(Inputs.other, MaxMsgs)
  \/ UpstreamThrows(Inputs.errors)
  \/ UpstreamEnds

Spec == Init /\ [][Next]_vars


(***************************************************************************)
(* SpecTools: doStream over tool-use fragments, tool-result and tool-error  *)
(* echoes of two tool ids, with a terminal result and upstream failures.    *)
(***************************************************************************)
MaxToolMsgs == 3

ToolInputs ==
  [ assistant |->
      { AssistantMsg(<<ToolUsePart(T1, "Bash", JString(StrA))>>),
        AssistantMsg(<<ToolUsePart(T1, "Bash", JString(StrAB))>>),
        AssistantMsg(<<ToolUsePart(T1, "Bash", JString(StrB))>>),
        AssistantMsg(<<ToolUsePart(T1, "", JUndefined)>>),
        AssistantMsg(<<ToolUsePart(T1, "Bash", JString(StrOverDelta))>>),
        AssistantMsg(<<ToolUsePart(T1, "Bash", JString(StrOverLimit))>>),
        AssistantMsg(<<ToolUsePart(NoId, "Bash", JString(StrA))>>),
        AssistantMsg(<<ToolUsePart(T1, "Bash", JString(StrA)),
                       ToolUsePart(T2, "Read", JObject(StrA))>>) },
    user |->
      { UserMsg(<<ToolResultPart(T1, "", FALSE)>>),
        UserMsg(<<ToolResultPart(T2, "Read", TRUE)>>),
        UserMsg(<<ToolErrorPart(T1, "")>>),
        UserMsg(<<ToolErrorPart(T2, "")>>),
        UserMsg(<<ToolResultPart(T1, "", FALSE), ToolResultPart(T1, "", FALSE)>>) },
    result |->
      { Success1 },
    errors |->
      { ErrBoom, ErrTruncation } ]

InitTools ==
  /\ sessionId = NoSession
  /\ settings = NoSettings
  /\ stream = StreamInit(FALSE)
  /\ gen = GenIdle
  /\ probe = ProbeIdle

NextTools ==
  \/ OnAssistant(ToolInputs.assistant, MaxToolMsgs)
  \/ OnUser(ToolInputs.user, MaxToolMsgs)
  \/ OnResult(ToolInputs.result, MaxToolMsgs)
  \/ UpstreamThrows(ToolInputs.errors)
  \/ UpstreamEnds

SpecTools == InitTools /\ [][NextTools]_vars

(***************************************************************************)
(* SpecText: doStream over partial-token events and assistant text, in      *)
(* JSON and non-JSON mode, with terminal results and syntax errors.         *)
(***************************************************************************)
MaxTextMsgs == 3

TextInputs ==
  [ streamEvents |->
      { TextDeltaEvent(StrA), TextDeltaEvent(StrAlmostFloor), JsonDeltaEvent(StrA) },
    assistant |->
      { AssistantMsg(<<TextPart(StrA)>>),
        AssistantMsg(<<TextPart(StrAB)>>),
        AssistantMsg(<<TextPart(StrFloor)>>),
        AssistantMsg(<<ThinkingPart(StrB), TextPart(StrA), TextPart(StrB)>>) },
    result |->
      { Success2 },
    errors |->
      { ErrTruncation, ErrUnterminated, ErrUnexpectedToken, ErrTruncationAbortCode } ]

InitText ==
  /\ sessionId = NoSession
  /\ settings = NoSettings
  /\ stream \in { StreamInit(jsonMode) : jsonMode \in BOOLEAN }
  /\ gen = GenIdle
  /\ probe = ProbeIdle

NextText ==
  \/ OnStreamEvent(TextInputs.streamEvents, MaxTextMsgs)
  \/ OnAssistant(TextInputs.assistant, MaxTextMsgs)
  \/ OnResult(TextInputs.result, MaxTextMsgs)
  \/ UpstreamThrows(TextInputs.errors)
  \/ UpstreamEnds

SpecText == InitText /\ [][NextText]_vars


(***************************************************************************)
(* SpecJson: doStream in JSON mode over plain-text partial tokens,          *)
(* structured-output fragments and assistant text, with terminal results    *)
(* with and without a structured-output payload and upstream failures.      *)
(***************************************************************************)
MaxJsonMsgs == 3

JsonInputs ==
  [ streamEvents |->
      { TextDeltaEvent(StrA), TextDeltaEvent(StrFloor), JsonDeltaEvent(StrA),
        JsonDeltaEvent(StrB) },
    assistant |->
      { AssistantMsg(<<TextPart(StrA)>>), AssistantMsg(<<TextPart(StrAB)>>) },
    result |->
      { Success1, Success2 },
    errors |->
      { ErrTruncation, ErrBoom } ]

InitJson ==
  /\ sessionId = NoSession
  /\ settings = NoSettings
  /\ stream = StreamInit(TRUE)
  /\ gen = GenIdle
  /\ probe = ProbeIdle

NextJson ==
  \/ OnStreamEvent(JsonInputs.streamEvents, MaxJsonMsgs)
  \/ OnAssistant(JsonInputs.assistant, MaxJsonMsgs)
  \/ OnResult(JsonInputs.result, MaxJsonMsgs)
  \/ UpstreamThrows(JsonInputs.errors)
  \/ UpstreamEnds

SpecJson == InitJson /\ [][NextJson]_vars

(***************************************************************************)
(* SpecGen: doGenerate over assistant text, terminal results, init          *)
(* messages and upstream failures.                                          *)
(***************************************************************************)
MaxGenMsgs == 3

GenCommit(r, entry) ==
  LET settled == IF r.thrown.isThrown THEN GenCatch(r, r.thrown.error) ELSE r
  IN  /\ gen' = [settled EXCEPT !.hist = Append(gen.hist, entry)]
      /\ sessionId' = settled.sessionId
      /\ UNCHANGED <<stream, probe, settings>>

GenReceives(max) == gen.pc = "loop" /\ Len(gen.hist) < max

GenerateOnAssistant(msgs, max) ==
  /\ GenReceives(max)
  /\ \E m \in msgs : GenCommit(GenAssistant(WithSession(gen), m), m)

GenerateOnResult(msgs, max) ==
  /\ GenReceives(max)
  /\ \E m \in msgs : GenCommit(GenResult(WithSession(gen), m), m)

GenerateOnSystem(msgs, max) ==
  /\ GenReceives(max)
  /\ \E m \in msgs : GenCommit(GenSystem(WithSession(gen), m), m)

\* a message of a type no branch matches
GenerateOnOther(msgs, max) ==
  /\ GenReceives(max)
  /\ \E m \in msgs : GenCommit(WithSession(gen), m)

GenerateThrows(errors) ==
  /\ gen.pc = "loop"
  /\ \E e \in errors : GenCommit(GenCatch(WithSession(gen), e), ThrowEntry(e))

GenerateEnds ==
  /\ gen.pc = "loop"
  /\ GenCommit(GenReturn(WithSession(gen)), EndEntry)

GenInputs ==
  [ assistant |->
      { AssistantMsg(<<TextPart(StrA)>>),
        AssistantMsg(<<TextPart(StrAlmostFloor)>>),
        AssistantMsg(<<TextPart(StrFloor)>>),
        AssistantMsg(<<ThinkingPart(StrB), TextPart(StrA), TextPart(StrB)>>) },
    result |->
      { Success1, Success2, MaxTurns, StructuredRetries },
    system |->
      { SystemMsg("init", "s1"), SystemMsg("compact_boundary", "s2") },
    other |->
      { TextDeltaEvent(StrFloor), UserMsg(<<ToolResultPart(T1, "", FALSE)>>) },
    errors |->
      { ErrTruncation, ErrUnterminated, ErrUnexpectedToken, ErrTruncationAbortCode,
        ErrAbort, ErrBoom, ErrNotLoggedIn, ErrTimeout } ]

InitGen ==
  /\ sessionId = NoSession
  /\ settings = NoSettings
  /\ stream = StreamIdle
  /\ gen = GenInit
  /\ probe = ProbeIdle

NextGen ==
  \/ GenerateOnAssistant(GenInputs.assistant, MaxGenMsgs)
  \/ GenerateOnResult(GenInputs.result, MaxGenMsgs)
  \/ GenerateOnSystem(GenInputs.system, MaxGenMsgs)
  \/ GenerateOnOther(GenInputs.other, MaxGenMsgs)
  \/ GenerateThrows(GenInputs.errors)
  \/ GenerateEnds

SpecGen == InitGen /\ [][NextGen]_vars

(***************************************************************************)
(* SpecCalls: serialized calls of doStream and doGenerate on one model      *)
(* instance.  A call starts when no call is running; the caller's           *)
(* cancellation signal may be absent, or fire before or during the call.    *)
(***************************************************************************)
MaxCallMsgs == 2

CallInputs ==
  [ assistant |->
      { AssistantMsg(<<ToolUsePart(T1, "Bash", JString(StrA))>>),
        AssistantMsg(<<TextPart(StrFloor)>>) },
    result |->
      { Success2,
        ResultMsg("error_max_structured_output_retries", "s3", FALSE, NoUsage,
                  JUndefined) },
    system |->
      { SystemMsg("init", "s1") },
    errors |->
      { ErrAbort, ErrTruncationAbortCode, ErrBoom },
    abortSignal |->
      { "none", "idle", "aborted" },
    settings |->
      { NoSettings, [resume |-> "s0"] } ]

NoCallRunning ==
  /\ stream.pc \in {"idle", "closed"}
  /\ gen.pc \in {"idle", "returned", "thrown"}

\* doStream(options) up to the start of the message loop
CallStream ==
  /\ NoCallRunning
  /\ \E jsonMode \in BOOLEAN, signal \in CallInputs.abortSignal :
       stream' = [StreamInit(jsonMode) EXCEPT
                    !.abortSignal = signal,
                    !.queryOptions = createQueryOptions(settings, sessionId)]
  /\ gen' = GenIdle
  /\ UNCHANGED <<sessionId, probe, settings>>

\* doGenerate(options) up to the start of the message loop
CallGenerate ==
  /\ NoCallRunning
  /\ \E signal \in CallInputs.abortSignal :
       gen' = [GenInit EXCEPT
                 !.abortSignal = signal,
                 !.queryOptions = createQueryOptions(settings, sessionId)]
  /\ stream' = StreamIdle
  /\ UNCHANGED <<sessionId, probe, settings>>

\* the caller aborts options.abortSignal while the call is running
AbortFires ==
  \/ /\ stream.pc = "loop"
     /\ stream.abortSignal = "idle"
     /\ stream' = [stream EXCEPT !.abortSignal = "aborted"]
     /\ UNCHANGED <<sessionId, gen, probe, settings>>
  \/ /\ gen.pc = "loop"
     /\ gen.abortSignal = "idle"
     /\ gen' = [gen EXCEPT !.abortSignal = "aborted"]
     /\ UNCHANGED <<sessionId, stream, probe, settings>>

InitCalls ==
  /\ sessionId = NoSession
  /\ settings \in CallInputs.settings
  /\ stream = StreamIdle
  /\ gen = GenIdle
  /\ probe = ProbeIdle

NextCalls ==
  \/ CallStream
  \/ CallGenerate
  \/ AbortFires
  \/ OnAssistant(CallInputs.assistant, MaxCallMsgs)
  \/ OnResult(CallInputs.result, MaxCallMsgs)
  \/ OnSystem(CallInputs.system, MaxCallMsgs)
  \/ UpstreamThrows(CallInputs.errors)
  \/ UpstreamEnds
  \/ GenerateOnAssistant(CallInputs.assistant, MaxCallMsgs)
  \/ GenerateOnResult(CallInputs.result, MaxCallMsgs)
  \/ GenerateOnSystem(CallInputs.system, MaxCallMsgs)
  \/ GenerateThrows(CallInputs.errors)
  \/ GenerateEnds

SpecCalls == InitCalls /\ [][NextCalls]_vars

(***************************************************************************)
(* SpecUsage: one call of doStream or of doGenerate over results that       *)
(* carry every count, some counts, or no usage at all.                      *)
(***************************************************************************)
MaxUsageMsgs == 3

UsageInputs ==
  [ assistant |->
      { AssistantMsg(<<TextPart(StrFloor)>>) },
    result |->
      { Success1, Success2, MaxTurns,
        ResultMsg("success", "s1", FALSE, NoUsage, JUndefined) },
    errors |->
      { ErrTruncation, ErrBoom } ]

InitUsage ==
  /\ sessionId = NoSession
  /\ settings = NoSettings
  /\ \/ stream = StreamInit(FALSE) /\ gen = GenIdle
     \/ stream = StreamIdle /\ gen = GenInit
  /\ probe = ProbeIdle

NextUsage ==
  \/ OnAssistant(UsageInputs.assistant, MaxUsageMsgs)
  \/ OnResult(UsageInputs.result, MaxUsageMsgs)
  \/ UpstreamThrows(UsageInputs.errors)
  \/ UpstreamEnds
  \/ GenerateOnAssistant(UsageInputs.assistant, MaxUsageMsgs)
  \/ GenerateOnResult(UsageInputs.result, MaxUsageMsgs)
  \/ GenerateThrows(UsageInputs.errors)
  \/ GenerateEnds

SpecUsage == InitUsage /\ [][NextUsage]_vars

(***************************************************************************)
(* SpecInput: one call of doStream or of doGenerate with streaming input.   *)
(* The upstream pulls the input iterable at any time; the generator         *)
(* resumes from its await once outputStreamEnded is resolved.               *)
(***************************************************************************)
MaxInputMsgs == 2

\* the upstream calls next() on the input iterator
UpstreamPullsInput ==
  \/ /\ stream.sdkPrompt.pos \in {"created", "yielded"}
     /\ stream' = [stream EXCEPT
                     !.sdkPrompt = InputIteratorNext(@, stream.doneCalled)]
     /\ UNCHANGED <<sessionId, gen, probe, settings>>
  \/ /\ gen.sdkPrompt.pos \in {"created", "yielded"}
     /\ gen' = [gen EXCEPT !.sdkPrompt = InputIteratorNext(@, gen.doneCalled)]
     /\ UNCHANGED <<sessionId, stream, probe, settings>>

\* outputStreamEnded is resolved and the pending await returns
InputCompletes ==
  \/ /\ stream.sdkPrompt.pos = "awaiting"
     /\ stream.doneCalled
     /\ stream' = [stream EXCEPT !.sdkPrompt.pos = "completed"]
     /\ UNCHANGED <<sessionId, gen, probe, settings>>
  \/ /\ gen.sdkPrompt.pos = "awaiting"
     /\ gen.doneCalled
     /\ gen' = [gen EXCEPT !.sdkPrompt.pos = "completed"]
     /\ UNCHANGED <<sessionId, stream, probe, settings>>

InitInput ==
  /\ sessionId = NoSession
  /\ settings = NoSettings
  /\ \/ /\ stream = [StreamInit(FALSE) EXCEPT !.sdkPrompt = toAsyncIterablePrompt]
        /\ gen = GenIdle
     \/ /\ stream = StreamIdle
        /\ gen = [GenInit EXCEPT !.sdkPrompt = toAsyncIterablePrompt]
  /\ probe = ProbeIdle

NextInput ==
  \/ UpstreamPullsInput
  \/ InputCompletes
  \/ OnAssistant(UsageInputs.assistant, MaxInputMsgs)
  \/ OnResult(UsageInputs.result, MaxInputMsgs)
  \/ UpstreamThrows(UsageInputs.errors)
  \/ UpstreamEnds
  \/ GenerateOnAssistant(UsageInputs.assistant, MaxInputMsgs)
  \/ GenerateOnResult(UsageInputs.result, MaxInputMsgs)
  \/ GenerateThrows(UsageInputs.errors)
  \/ GenerateEnds

SpecInput == InitInput /\ [][NextInput]_vars

(***************************************************************************)
(* SpecReasoning: doStream over assistant messages with no, one or two      *)
(* thinking parts, alone or with text and a tool use.                       *)
(***************************************************************************)
MaxReasoningMsgs == 3

ReasoningInputs ==
  [ assistant |->
      { AssistantMsg(<<ThinkingPart(StrA)>>),
        AssistantMsg(<<ThinkingPart(StrA), ThinkingPart(StrB)>>),
        AssistantMsg(<<ThinkingPart(EmptyStr)>>),
        AssistantMsg(<<TextPart(StrA), ThinkingPart(StrB),
                       ToolUsePart(NoId, "Bash", JString(StrA))>>),
        AssistantMsg(<<TextPart(StrAB)>>) },
    result |->
      { Success1 },
    errors |->
      { ErrBoom } ]

InitReasoning ==
  /\ sessionId = NoSession
  /\ settings = NoSettings
  /\ stream \in { StreamInit(jsonMode) : jsonMode \in BOOLEAN }
  /\ gen = GenIdle
  /\ probe = ProbeIdle

NextReasoning ==
  \/ OnAssistant(ReasoningInputs.assistant, MaxReasoningMsgs)
  \/ OnResult(ReasoningInputs.result, MaxReasoningMsgs)
  \/ UpstreamThrows(ReasoningInputs.errors)
  \/ UpstreamEnds

SpecReasoning == InitReasoning /\ [][NextReasoning]_vars

(***************************************************************************)
(* SpecSizes: doStream over tool uses whose input sits on either side of    *)
(* the warning threshold and of the size limit.                             *)
(***************************************************************************)
MaxSizeMsgs == 3

SizeInputs ==
  [ assistant |->
      { AssistantMsg(<<ToolUsePart(T1, "Bash", JString(StrA))>>),
        AssistantMsg(<<ToolUsePart(T1, "Bash", JString(Rep("a", MAX_TOOL_INPUT_WARN)))>>),
        AssistantMsg(<<ToolUsePart(T1, "Bash", JString(Rep("a", MAX_TOOL_INPUT_WARN + 1)))>>),
        AssistantMsg(<<ToolUsePart(T1, "Bash", JString(Rep("a", MAX_TOOL_INPUT_SIZE)))>>),
        AssistantMsg(<<ToolUsePart(T1, "Bash", JString(Rep("a", MAX_TOOL_INPUT_SIZE + 1)))>>) },
    user |->
      { UserMsg(<<ToolResultPart(T1, "", FALSE)>>) },
    result |->
      { Success1 } ]

NextSizes ==
  \/ OnAssistant(SizeInputs.assistant, MaxSizeMsgs)
  \/ OnUser(SizeInputs.user, MaxSizeMsgs)
  \/ OnResult(SizeInputs.result, MaxSizeMsgs)
  \/ UpstreamEnds

SpecSizes == InitTools /\ [][NextSizes]_vars

(***************************************************************************)
(* SpecIgnored: doStream over sequences that mix translated messages with   *)
(* messages no branch handles.                                              *)
(***************************************************************************)
MaxIgnoredMsgs == 3

IgnoredInputs ==
  [ streamEvents |->
      { TextDeltaEvent(StrA),
        StreamEventMsg("content_block_start", "", EmptyStr),
        StreamEventMsg("content_block_delta", "thinking_delta", StrA) },
    assistant |->
      { AssistantMsg(<<ToolUsePart(T1, "Bash", JString(StrA))>>) },
    result |->
      { Success1 },
    system |->
      { SystemMsg("init", "s1"), SystemMsg("compact_boundary", "s2") },
    other |->
      { Msg("tool_progress") },
    errors |->
      { ErrBoom } ]

NextIgnored ==
  \/ OnStreamEvent(IgnoredInputs.streamEvents, MaxIgnoredMsgs)
  \/ OnAssistant(IgnoredInputs.assistant, MaxIgnoredMsgs)
  \/ OnResult(IgnoredInputs.result, MaxIgnoredMsgs)
  \/ OnSystem(IgnoredInputs.system, MaxIgnoredMsgs)
  \/ OnOther(IgnoredInputs.other, MaxIgnoredMsgs)
  \/ UpstreamThrows(IgnoredInputs.errors)
  \/ UpstreamEnds

SpecIgnored == Init /\ [][NextIgnored]_vars

(***************************************************************************)
(* SpecTrunc: one call of isClaudeCodeTruncationError on each combination   *)
(* of error class, name, message and buffered-text length.                  *)
(***************************************************************************)
ProbeInputs ==
  LET classes == { "SyntaxError", "Error", "Object", "Null" }
      names ==
        { JsStr(NameSyntaxError), JsStr(LitSyntaxErrorLower), ErrUnterminated.name,
          JsStr(NameError), JsStr(NameAbortError), NotStr }
      messages ==
        { JsStr(MsgEndOfJsonInput),
          JsStr(MsgEndOfJsonInput \o <<" ","a","t"," ","p","o","s","i","t","i","o","n"," ","9">>),
          JsStr(<<"u","n","e","x","p","e","c","t","e","d"," ","e","n","d"," ","o","f"," ","i","n","p","u","t">>),   \* 'unexpected end of input'
          JsStr(<<"U","n","e","x","p","e","c","t","e","d"," ","e","n","d"," ","o","f"," ","s","t","r","i","n","g">>),   \* 'Unexpected end of string'
          JsStr(<<"U","N","E","X","P","E","C","T","E","D"," ","E","O","F">>),   \* 'UNEXPECTED EOF'
          JsStr(<<"R","e","a","c","h","e","d"," ","e","n","d"," ","o","f"," ","f","i","l","e">>),   \* 'Reached end of file'
          JsStr(MsgUnterminated),
          JsStr(MsgUnexpectedToken),
          JsStr(<<"U","n","e","x","p","e","c","t","e","d"," ","e","n","d">>),   \* 'Unexpected end'
          ErrBoom.message, JsStr(<<>>), NotStr }
  IN  [ errors |->
          { MkError(cls, name, message, NotStr, NotNum) :
              cls \in classes, name \in names, message \in messages }
            \ { e \in [cls : {"Null"}, name : names, message : messages,
                       code : {NotStr}, exitCode : {NotNum}] :
                  e.name # NotStr \/ e.message # NotStr },
        texts |->
          { EmptyStr, StrA, StrAlmostFloor, StrFloor, StrCat(StrFloor, StrB),
            StrCat(StrAlmostFloor, StrB) } ]

InitTrunc ==
  /\ sessionId = NoSession
  /\ settings = NoSettings
  /\ stream = StreamIdle
  /\ gen = GenIdle
  /\ probe \in { [phase |-> "called", error |-> e, bufferedText |-> t, result |-> FALSE] :
                   e \in ProbeInputs.errors, t \in ProbeInputs.texts }

Classify ==
  /\ probe.phase = "called"
  /\ probe' = [probe EXCEPT !.phase = "returned",
                            !.result = isClaudeCodeTruncationError(probe.error,
                                                                   probe.bufferedText)]
  /\ UNCHANGED <<sessionId, stream, gen, settings>>

NextTrunc == Classify

SpecTrunc == InitTrunc /\ [][NextTrunc]_vars


(***************************************************************************)
(* Properties.  They are stated over the output enqueued so far and the     *)
(* history of upstream messages.                                            *)
(***************************************************************************)
Out == stream.out

Positions(parts, types) == {k \in 1..Len(parts) : parts[k].type \in types}

PositionsOf(parts, types, id) ==
  {k \in 1..Len(parts) : parts[k].type \in types /\ parts[k].id = id}

ToolPartTypes ==
  {"tool-input-start", "tool-input-delta", "tool-input-end", "tool-call",
   "tool-result", "tool-error"}

\* the tool ids that occur in the output
OutToolIds == {Out[k].id : k \in Positions(Out, ToolPartTypes)}

LastEntry(h) == h[Len(h)]

\* C1: a doStream run emits at most one terminal event (finish or error).
C1_AtMostOneTerminal == Cardinality(Positions(Out, {"finish", "error"})) <= 1

\* C2: a doStream run that has closed its output stream has emitted a
\* terminal event (finish or error).
C2_ClosedAfterTerminal ==
  stream.pc = "closed" => Positions(Out, {"finish", "error"}) # {}

\* C3: for every tool id of the run the tool-call is emitted exactly once:
\* never twice, and once the stream is closed, once.
C3_ToolCallExactlyOnce ==
  \A id \in OutToolIds :
    /\ Cardinality(PositionsOf(Out, {"tool-call"}, id)) <= 1
    /\ stream.pc = "closed" => Cardinality(PositionsOf(Out, {"tool-call"}, id)) = 1

\* C4: for every tool id, a tool-input-end comes after a tool-input-start, a
\* tool-call after a tool-input-end, and a tool-result or tool-error after a
\* tool-call of that id.
C4_ToolLifecycleOrder ==
  \A k \in 1..Len(Out) :
    /\ Out[k].type = "tool-input-end" =>
         \E j \in PositionsOf(Out, {"tool-input-start"}, Out[k].id) : j < k
    /\ Out[k].type = "tool-call" =>
         \E j \in PositionsOf(Out, {"tool-input-end"}, Out[k].id) : j < k
    /\ Out[k].type \in {"tool-result", "tool-error"} =>
         \E j \in PositionsOf(Out, {"tool-call"}, Out[k].id) : j < k

\* the first part of the output that carries the tool id
FirstOf(id) == CHOOSE k \in PositionsOf(Out, ToolPartTypes, id) :
                 \A j \in PositionsOf(Out, ToolPartTypes, id) : k <= j

\* the tool ids named by tool_use parts, and by echoes, of a message
UsedIn(m) == {m.content[i].id : i \in {j \in 1..Len(m.content) :
                 m.type = "assistant" /\ m.content[j].type = "tool_use"}}
EchoedIn(m) == {m.content[i].id : i \in {j \in 1..Len(m.content) :
                 m.type = "user" /\ m.content[j].type \in {"tool_result", "tool_error"}}}

\* the id is first seen in an echo: some message echoes it and no earlier
\* message carries a tool-use for it
Orphaned(id) ==
  \E k \in 1..Len(stream.hist) :
    /\ id \in EchoedIn(stream.hist[k])
    /\ \A j \in 1..(k - 1) : id \notin UsedIn(stream.hist[j]) \cup EchoedIn(stream.hist[j])

\* C5: a tool id first seen via an orphaned tool-result or tool-error gets,
\* consecutively, tool-input-start, tool-input-end, tool-call and then the
\* tool-result or tool-error.
C5_OrphanLifecycle ==
  \A id \in {T1, T2} :
    Orphaned(id) =>
      LET k == FirstOf(id)
      IN  /\ PositionsOf(Out, ToolPartTypes, id) # {}
          /\ k + 3 <= Len(Out)
          /\ Out[k].type = "tool-input-start"
          /\ Out[k + 1].type = "tool-input-end" /\ Out[k + 1].id = id
          /\ Out[k + 2].type = "tool-call" /\ Out[k + 2].id = id
          /\ Out[k + 3].type \in {"tool-result", "tool-error"} /\ Out[k + 3].id = id


(***************************************************************************)
(* Steps.  NewOut is what a step enqueues; Received holds in a step that    *)
(* consumes one more item of the upstream iterator.                         *)
(***************************************************************************)
NewOut == SubSeq(stream'.out, Len(stream.out) + 1, Len(stream'.out))

Received == Len(stream'.hist) = Len(stream.hist) + 1

NoResultIn(h) == \A k \in 1..Len(h) : h[k].type # "result"

\* the tool_use parts of a content array that the loop reaches: up to and
\* including the first one whose input cannot be serialized
RECURSIVE ReachedUses(_)
ReachedUses(content) ==
  IF content = <<>> THEN <<>>
  ELSE IF Head(content).type # "tool_use" THEN ReachedUses(Tail(content))
  ELSE IF serializeToolInput(Head(content).input).threw THEN <<Head(content)>>
  ELSE <<Head(content)>> \o ReachedUses(Tail(content))

\* the last input of the id, among the given parts, that was serialized to
\* a non-empty string; before if there is none
RECURSIVE LastInputAmong(_, _, _)
LastInputAmong(parts, id, before) ==
  IF parts = <<>> THEN before
  ELSE LET part == parts[Len(parts)]
           serialized == serializeToolInput(part.input)
       IN  IF part.id = id /\ ~serialized.threw /\ serialized.value # EmptyStr
             THEN serialized.value
             ELSE LastInputAmong(SubSeq(parts, 1, Len(parts) - 1), id, before)

\* the last serialized input seen for the id in a history
RECURSIVE LastInputSeen(_, _)
LastInputSeen(h, id) ==
  IF h = <<>> THEN EmptyStr
  ELSE LET m == h[Len(h)]
           before == LastInputSeen(SubSeq(h, 1, Len(h) - 1), id)
       IN  IF m.type = "assistant" THEN LastInputAmong(ReachedUses(m.content), id, before)
           ELSE before

\* the tools whose tool-call is outstanding when the step begins, and the
\* upstream ids the step itself is the first to name in a tool_use
PendingTools ==
  {stream.toolStates[i].id :
     i \in {j \in 1..Len(stream.toolStates) : ~stream.toolStates[j].callEmitted}}

FirstNamedNow ==
  LET m == LastEntry(stream'.hist)
      reached == ReachedUses(m.content)
  IN  IF m.type # "assistant" THEN {}
      ELSE {reached[i].id : i \in 1..Len(reached)}
             \ ({NoId} \cup {stream.toolStates[i].id : i \in 1..Len(stream.toolStates)})

\* the step ends the run: a terminal result, a failure (of the upstream or
\* inside a handler) or the exhaustion of the upstream
EndsRun ==
  /\ Received
  /\ NoResultIn(stream.hist)
  /\ stream'.pc = "closed" \/ LastEntry(stream'.hist).type = "result"

C6Step ==
  EndsRun =>
    \A id \in PendingTools \cup (IF stream'.pc = "closed" THEN FirstNamedNow ELSE {}) :
      \E k \in 1..Len(NewOut) :
        /\ NewOut[k].type = "tool-call"
        /\ NewOut[k].id = id
        /\ id.src = "upstream" => NewOut[k].text = LastInputSeen(stream'.hist, id)
        /\ \A j \in 1..Len(NewOut) : NewOut[j].type = "finish" => k < j

\* C6: every tool whose tool-call is outstanding when the run ends (terminal
\* result, truncation, hard error, upstream exhaustion) gets its tool-call in
\* the ending step, carrying the last serialized input seen for it (the last
\* non-empty serialization; empty if there was none), and before the finish
\* event where the step emits one.
C6_PendingToolsFinalized == [][C6Step]_vars

\* a fragment with input, a fragment without input, then exhaustion: the
\* tool-call closes the output and carries the input of the first fragment
C6_Witness ==
  /\ stream.pc = "closed"
  /\ Len(stream.hist) = 3
  /\ stream.hist[1] = AssistantMsg(<<ToolUsePart(T1, "Bash", JString(StrAB))>>)
  /\ stream.hist[2] = AssistantMsg(<<ToolUsePart(T1, "", JUndefined)>>)
  /\ stream.hist[3] = EndEntry
  /\ LastEntry(Out).type = "tool-call"
  /\ LastEntry(Out).id = T1
  /\ LastEntry(Out).text = StrAB

(***************************************************************************)
(* Text delivered to the consumer.                                          *)
(***************************************************************************)
\* the concatenation of the text-delta payloads of a sequence of parts
RECURSIVE DeliveredText(_)
DeliveredText(parts) ==
  IF parts = <<>> THEN EmptyStr
  ELSE IF Head(parts).type = "text-delta"
    THEN StrCat(Head(parts).text, DeliveredText(Tail(parts)))
    ELSE DeliveredText(Tail(parts))

IsPartialText(m) ==
  /\ m.type = "stream_event"
  /\ m.eventType = "content_block_delta"
  /\ m.deltaType = "text_delta"
  /\ m.deltaText # EmptyStr

\* the text a history stands for: partial-token text appends, the text of a
\* cumulative assistant message replaces
RECURSIVE TextAfter(_)
TextAfter(h) ==
  IF h = <<>> THEN EmptyStr
  ELSE LET m == h[Len(h)]
           before == TextAfter(SubSeq(h, 1, Len(h) - 1))
       IN  IF IsPartialText(m) THEN StrCat(before, m.deltaText)
           ELSE IF m.type = "assistant" /\ JoinText(m.content) # EmptyStr
             THEN JoinText(m.content)
           ELSE before

\* every assistant message of the history comes after partial-token text and
\* is cumulative: its text starts with the text the history stood for
Cumulative(h) ==
  \A k \in 1..Len(h) :
    h[k].type = "assistant" =>
      /\ \E j \in 1..(k - 1) : IsPartialText(h[j])
      /\ StrStartsWith(JoinText(h[k].content), TextAfter(SubSeq(h, 1, k - 1)))

C7Step ==
  LET m == LastEntry(stream'.hist)
      T == JoinText(m.content)
      P == TextAfter(stream.hist)
      deltas == Positions(NewOut, {"text-delta"})
  IN  ( /\ Received
        /\ ~stream.jsonMode
        /\ m.type = "assistant"
        /\ NoResultIn(stream.hist)
        /\ Cumulative(stream'.hist) ) =>
      /\ DeliveredText(stream.out) = P
      /\ StrLen(T) > StrLen(P) =>
           /\ Cardinality(deltas) = 1
           /\ \A k \in deltas : NewOut[k].text = StrSlice(T, StrLen(P))
      /\ T = P => deltas = {}
      /\ DeliveredText(stream'.out) = T

\* C7: in non-JSON doStream, once partial-token text has delivered P, a
\* cumulative assistant message with text T emits exactly one text-delta with
\* the part of T beyond |P| when T is longer, none when T = P, and the
\* text-deltas delivered so far then concatenate to T.
C7_CumulativeTextDedup == [][C7Step]_vars

\* partial "a", then the cumulative message "ab": two text-deltas, "a" and "b"
C7_Witness ==
  /\ ~stream.jsonMode
  /\ stream.hist = <<TextDeltaEvent(StrA), AssistantMsg(<<TextPart(StrAB)>>)>>
  /\ Cardinality(Positions(Out, {"text-delta"})) = 2
  /\ LastEntry(Out).type = "text-delta"
  /\ LastEntry(Out).text = StrB
  /\ DeliveredText(Out) = StrAB

(***************************************************************************)
(* Failures of the upstream iterator.                                       *)
(***************************************************************************)
IsSyntaxError(e) ==
  \/ e.cls = "SyntaxError"
  \/ e.name.isString /\ toLowerCase(e.name.chars) = LitSyntaxErrorLower

EndOfInputMessage(e) ==
  /\ e.message.isString
  /\ \E phrase \in truncationIndicators : includes(toLowerCase(e.message.chars), phrase)

UnexpectedTokenMessage(e) ==
  /\ e.message.isString
  /\ includes(toLowerCase(e.message.chars),
      <<"u","n","e","x","p","e","c","t","e","d"," ","t","o","k","e","n">>)   \* 'unexpected token'
  /\ ~EndOfInputMessage(e)

C8Step ==
  LET e == LastEntry(stream'.hist).error
      buffered == stream.accumulatedText
      finishes == Positions(NewOut, {"finish"})
      errors == Positions(NewOut, {"error"})
  IN  (Received /\ LastEntry(stream'.hist).type = "throw" /\ IsSyntaxError(e)) =>
      /\ (EndOfInputMessage(e) /\ StrLen(buffered) >= MIN_TRUNCATION_LENGTH) =>
           /\ errors = {}
           /\ Cardinality(finishes) = 1
           /\ \A k \in finishes :
                NewOut[k].finishReason = "length" /\ NewOut[k].truncated
      /\ ( \/ EndOfInputMessage(e) /\ StrLen(buffered) < MIN_TRUNCATION_LENGTH
           \/ UnexpectedTokenMessage(e) ) =>
           /\ finishes = {}
           /\ Cardinality(errors) = 1

\* C8: in doStream, a syntax error with an end-of-input message thrown after
\* at least 512 buffered characters yields a finish event with finishReason
\* 'length' and truncated: true and no error event; with fewer than 512
\* buffered characters, or with an 'unexpected token' message, it yields an
\* error event and no finish event.
C8_StreamTruncationOrError == [][C8Step]_vars

\* the truncation is recognised with exactly 512 buffered characters
C8_Witness ==
  /\ stream.pc = "closed"
  /\ LastEntry(stream.hist) = ThrowEntry(ErrTruncation)
  /\ StrLen(stream.accumulatedText) = MIN_TRUNCATION_LENGTH
  /\ LastEntry(Out).type = "finish"
  /\ LastEntry(Out).truncated

\* the text doGenerate has buffered: the text of the assistant messages
RECURSIVE GenBuffered(_)
GenBuffered(h) ==
  IF h = <<>> THEN EmptyStr
  ELSE IF Head(h).type = "assistant"
    THEN StrCat(JoinText(Head(h).content), GenBuffered(Tail(h)))
    ELSE GenBuffered(Tail(h))

\* C9: in doGenerate a recoverable truncation does not throw: the call
\* returns the buffered text with finishReason 'length', truncated: true and
\* the truncation warning; a syntax error that is no truncation (short
\* buffer, or 'unexpected token') is thrown and nothing is returned.
C9_GenerateTruncationReturns ==
  LET e == LastEntry(gen.hist).error
      buffered == GenBuffered(gen.hist)
  IN  ( /\ gen.pc \in {"returned", "thrown"}
        /\ LastEntry(gen.hist).type = "throw"
        /\ IsSyntaxError(e) ) =>
      /\ (EndOfInputMessage(e) /\ StrLen(buffered) >= MIN_TRUNCATION_LENGTH) =>
           /\ gen.pc = "returned"
           /\ gen.result.text = buffered
           /\ gen.result.finishReason = "length"
           /\ gen.result.truncated
           /\ \E k \in 1..Len(gen.result.warnings) :
                gen.result.warnings[k] = "CLAUDE_CODE_TRUNCATION_WARNING"
      /\ ( \/ EndOfInputMessage(e) /\ StrLen(buffered) < MIN_TRUNCATION_LENGTH
           \/ UnexpectedTokenMessage(e) ) =>
           /\ gen.pc = "thrown"
           /\ gen.result = NoResult

\* C10: isClaudeCodeTruncationError(error, bufferedText) is true if and only
\* if the error is a syntax error (by instance or by name), bufferedText has
\* at least 512 characters, and the lower-cased message contains one of the
\* end-of-input phrases.
C10_TruncationIffAllThree ==
  probe.phase = "returned" =>
    ( probe.result <=>
        /\ IsSyntaxError(probe.error)
        /\ StrLen(probe.bufferedText) >= MIN_TRUNCATION_LENGTH
        /\ EndOfInputMessage(probe.error) )

\* true at exactly 512 characters for an error that is a syntax error by name
C10_Witness ==
  /\ probe.phase = "returned"
  /\ probe.result
  /\ probe.error.cls # "SyntaxError"
  /\ StrLen(probe.bufferedText) = MIN_TRUNCATION_LENGTH

(***************************************************************************)
(* Tool input that is replaced rather than extended.                        *)
(***************************************************************************)
\* the serialization S does not extend the previous serialization L by a
\* prefix, or one of the two is over the delta threshold
Replaces(L, S) ==
  /\ L # EmptyStr
  /\ S # EmptyStr
  /\ \/ ~StrStartsWith(S, L)
     \/ StrLen(S) > MAX_DELTA_CALC_SIZE
     \/ StrLen(L) > MAX_DELTA_CALC_SIZE

C11Step ==
  LET m == LastEntry(stream'.hist)
      reached == ReachedUses(m.content)
  IN  (Received /\ NoResultIn(stream.hist)) =>
      /\ m.type = "assistant" =>
           \A i \in 1..Len(reached) :
             LET serialized == serializeToolInput(reached[i].input)
             IN  ( /\ reached[i].id.src = "upstream"
                   /\ ~serialized.threw
                   /\ Replaces(LastInputSeen(stream.hist, reached[i].id),
                               serialized.value) ) =>
                 PositionsOf(NewOut, {"tool-input-delta"}, reached[i].id) = {}
      /\ \A k \in 1..Len(NewOut) :
           (NewOut[k].type = "tool-call" /\ NewOut[k].id.src = "upstream") =>
             NewOut[k].text = LastInputSeen(stream'.hist, NewOut[k].id)

\* C11: a tool-use fragment whose serialized input is not a prefix-extension
\* of the previous serialized input of its tool id, or where one of the two
\* is over the delta threshold, emits no tool-input-delta, and every
\* tool-call carries the last serialized input seen for its id.
C11_ReplacedInputNoDelta == [][C11Step]_vars

\* input "a" replaced by "b": one tool-input-delta ("a"), tool-call with "b"
C11_Witness ==
  /\ stream.hist = << AssistantMsg(<<ToolUsePart(T1, "Bash", JString(StrA))>>),
                      AssistantMsg(<<ToolUsePart(T1, "Bash", JString(StrB))>>),
                      EndEntry >>
  /\ \A k \in PositionsOf(Out, {"tool-input-delta"}, T1) : Out[k].text = StrA
  /\ Cardinality(PositionsOf(Out, {"tool-input-delta"}, T1)) = 1
  /\ LastEntry(Out).type = "tool-call"
  /\ LastEntry(Out).text = StrB

(***************************************************************************)
(* Several tool ids outstanding at once.                                    *)
(***************************************************************************)
\* the parts of a sequence (content parts, or tool events) that carry the id
RECURSIVE OfId(_, _)
OfId(parts, id) ==
  IF parts = <<>> THEN <<>>
  ELSE IF Head(parts).id = id THEN <<Head(parts)>> \o OfId(Tail(parts), id)
  ELSE OfId(Tail(parts), id)

\* the history as it would be had only the messages of the id arrived
AloneHist(h, id) == [k \in 1..Len(h) |-> [h[k] EXCEPT !.content = OfId(@, id)]]

\* the run of doStream on a history of assistant and user messages, ended
\* or not by the exhaustion of the upstream
RECURSIVE Replay(_)
Replay(h) ==
  IF h = <<>> THEN StreamInit(stream.jsonMode)
  ELSE LET before == Replay(SubSeq(h, 1, Len(h) - 1))
           m == h[Len(h)]
       IN  IF before.pc # "loop" THEN before
           ELSE IF m.type = "assistant" THEN Settle(HandleAssistant(before, m))
           ELSE IF m.type = "user" THEN Settle(HandleUser(before, m))
           ELSE IF m.type = "end" THEN AfterLoop(before)
           ELSE before

\* the number of parts of the type that echo the id in a history
RECURSIVE EchoCount(_, _, _)
EchoCount(h, type, id) ==
  IF h = <<>> THEN 0
  ELSE Cardinality({i \in 1..Len(Head(h).content) :
                      /\ Head(h).type = "user"
                      /\ Head(h).content[i].type = type
                      /\ Head(h).content[i].id = id})
         + EchoCount(Tail(h), type, id)

\* the run received tool-use, tool-result and tool-error messages only, and
\* has not failed
ToolMessagesOnly ==
  /\ \A k \in 1..Len(stream.hist) : stream.hist[k].type \in {"assistant", "user", "end"}
  /\ stream.pc = "loop" \/ LastEntry(stream.hist) = EndEntry

\* C12: with several tool ids outstanding, the tool events of one id are
\* those of the run in which only the messages of that id arrive, and the
\* number of tool-result (tool-error) events of an id is the number of
\* result (error) echoes received for it.
C12_ToolLifecyclesIndependent ==
  ToolMessagesOnly =>
    \A id \in {T1, T2} :
      /\ OfId(Out, id) = OfId(Replay(AloneHist(stream.hist, id)).out, id)
      /\ Cardinality(PositionsOf(Out, {"tool-result"}, id))
           = EchoCount(stream.hist, "tool_result", id)
      /\ Cardinality(PositionsOf(Out, {"tool-error"}, id))
           = EchoCount(stream.hist, "tool_error", id)

\* T1 and T2 opened together, T2 answered first, then T1
C12_Witness ==
  /\ stream.hist = << AssistantMsg(<<ToolUsePart(T1, "Bash", JString(StrA)),
                                     ToolUsePart(T2, "Read", JObject(StrA))>>),
                      UserMsg(<<ToolResultPart(T2, "Read", TRUE)>>),
                      UserMsg(<<ToolResultPart(T1, "", FALSE)>>) >>
  /\ Cardinality(PositionsOf(Out, {"tool-result"}, T1)) = 1
  /\ Cardinality(PositionsOf(Out, {"tool-result"}, T2)) = 1
  /\ \E j \in PositionsOf(Out, {"tool-call"}, T1) :
       \E k \in PositionsOf(Out, {"tool-result"}, T2) : k < j

(***************************************************************************)
(* Results that report a failure, cancellation and the session across       *)
(* calls.                                                                   *)
(***************************************************************************)
IsRetriesResult(m) ==
  m.type = "result" /\ m.subtype = "error_max_structured_output_retries"

\* C13: a result message with subtype error_max_structured_output_retries
\* is a hard failure: doStream (where it is the run's first result message)
\* closes with an error event as its last event and no finish event, and
\* doGenerate throws and returns nothing; both report the error raised for
\* the subtype.
C13_RetriesResultIsHardFailure ==
  /\ \A k \in 1..Len(stream.hist) :
       (IsRetriesResult(stream.hist[k]) /\ NoResultIn(SubSeq(stream.hist, 1, k - 1))) =>
         /\ k = Len(stream.hist)
         /\ stream.pc = "closed"
         /\ LastEntry(Out).type = "error"
         /\ LastEntry(Out).error.error = StructuredOutputRetriesError
         /\ Positions(Out, {"finish"}) = {}
         /\ Cardinality(Positions(Out, {"error"})) = 1
  /\ \A k \in 1..Len(gen.hist) :
       IsRetriesResult(gen.hist[k]) =>
         /\ k = Len(gen.hist)
         /\ gen.pc = "thrown"
         /\ gen.error.error = StructuredOutputRetriesError
         /\ gen.result = NoResult

\* doStream closed by the result message right after the init message
C13_Witness ==
  /\ Len(stream.hist) = 2
  /\ stream.hist[1] = SystemMsg("init", "s1")
  /\ IsRetriesResult(stream.hist[2])
  /\ stream.pc = "closed"
  /\ LastEntry(Out).type = "error"

\* the last item of the history is an abort error thrown by the upstream
AbortFailure(h) ==
  /\ h # <<>>
  /\ LastEntry(h).type = "throw"
  /\ isAbortError(LastEntry(h).error)

\* the error, with the text buffered, is a recoverable truncation
RecoverableTruncation(e, buffered) ==
  /\ IsSyntaxError(e)
  /\ EndOfInputMessage(e)
  /\ StrLen(buffered) >= MIN_TRUNCATION_LENGTH

\* what a cancelled call surfaces: the signal's reason if the signal is
\* aborted, the abort error itself otherwise
SurfacedOnAbort(signal, e) ==
  IF signal = "aborted" THEN Emitted("abortSignal.reason", NullError)
  ELSE Emitted("unchanged", e)

\* C14: when the upstream fails with an abort error (that is not recovered
\* as a truncation), doGenerate throws, and doStream carries in its error
\* event, the reason of the caller's signal if the signal is aborted and the
\* abort error unchanged otherwise; never an error built by the error
\* handler.
C14_AbortReasonSurfaced ==
  /\ ( /\ AbortFailure(stream.hist)
       /\ ~RecoverableTruncation(LastEntry(stream.hist).error, stream.accumulatedText) ) =>
       /\ LastEntry(Out).type = "error"
       /\ LastEntry(Out).error
            = SurfacedOnAbort(stream.abortSignal, LastEntry(stream.hist).error)
  /\ ( /\ AbortFailure(gen.hist)
       /\ ~RecoverableTruncation(LastEntry(gen.hist).error, GenBuffered(gen.hist)) ) =>
       /\ gen.pc = "thrown"
       /\ gen.error = SurfacedOnAbort(gen.abortSignal, LastEntry(gen.hist).error)

\* doGenerate cancelled during the call: the signal's reason is thrown
C14_Witness ==
  /\ gen.pc = "thrown"
  /\ gen.abortSignal = "aborted"
  /\ Len(gen.hist) = 2
  /\ LastEntry(gen.hist) = ThrowEntry(ErrAbort)
  /\ gen.error.via = "abortSignal.reason"

C15Step ==
  (stream.pc = "loop" /\ stream.abortSignal = "aborted") =>
    \/ NewOut = <<>>
    \/ NewOut = <<ErrorPart(Emitted("abortSignal.reason", NullError))>>

\* C15: once the caller's signal is aborted during a doStream run, the only
\* event enqueued from then on is the one error event that carries the
\* signal's reason.
C15_NothingAfterCancellation == [][C15Step]_vars

\* the message carries a session id the instance is to capture
CapturesSession(m) ==
  \/ m.type = "result"
  \/ m.type = "system" /\ m.subtype = "init"

\* the session id after a step in which the invocation with histories h
\* (before) and h2 (after) may have received a message
SessionAfter(h, h2) ==
  IF Len(h2) = Len(h) + 1 /\ CapturesSession(LastEntry(h2))
    THEN LastEntry(h2).session_id ELSE sessionId

\* the resume option of a call that starts in this step
ResumeOnCall(options) ==
  options.resume = IF settings.resume # NoSession THEN settings.resume ELSE sessionId

C16Step ==
  /\ stream' # stream => sessionId' = SessionAfter(stream.hist, stream'.hist)
  /\ gen' # gen => sessionId' = SessionAfter(gen.hist, gen'.hist)
  /\ (stream.pc # "loop" /\ stream'.pc = "loop") => ResumeOnCall(stream'.queryOptions)
  /\ (gen.pc # "loop" /\ gen'.pc = "loop") => ResumeOnCall(gen'.queryOptions)

\* C16: the instance's session id is set by each init message and by each
\* result message to the session id of the message, changes in no other
\* step, and a call that starts passes as resume settings.resume if it is
\* set and the session id of the instance otherwise.
C16_SessionCapturedAndResumed == [][C16Step]_vars

(***************************************************************************)
(* Text blocks, in JSON mode and in general.                                *)
(***************************************************************************)
TextTypes == {"text-start", "text-delta", "text-end"}

\* the parts of a sequence whose type is one of the types
RECURSIVE OfTypes(_, _)
OfTypes(parts, types) ==
  IF parts = <<>> THEN <<>>
  ELSE IF Head(parts).type \in types THEN <<Head(parts)>> \o OfTypes(Tail(parts), types)
  ELSE OfTypes(Tail(parts), types)

\* the parts are one complete text block with the given text
IsTextBlock(parts, text) ==
  /\ Len(parts) = 3
  /\ parts[1].type = "text-start"
  /\ parts[2].type = "text-delta" /\ parts[2].id = parts[1].id /\ parts[2].text = text
  /\ parts[3].type = "text-end" /\ parts[3].id = parts[1].id

IsJsonFragment(m) ==
  /\ m.type = "stream_event"
  /\ m.eventType = "content_block_delta"
  /\ m.deltaType = "input_json_delta"
  /\ m.deltaText # EmptyStr

NoJsonFragmentIn(h) == \A k \in 1..Len(h) : ~IsJsonFragment(h[k])

C17Step ==
  LET m == LastEntry(stream'.hist)
      buffered == stream.accumulatedText
      texts == OfTypes(NewOut, TextTypes)
  IN  (stream.jsonMode /\ Received /\ NoResultIn(stream.hist)) =>
      /\ (IsPartialText(m) \/ m.type = "assistant") =>
           /\ texts = <<>>
           /\ stream'.pc = "loop"
      /\ NoJsonFragmentIn(stream'.hist) =>
           /\ OfTypes(stream.out, TextTypes) = <<>>
           /\ IF m.type = "result" /\ m.structured_output.t # "undefined"
                THEN IsTextBlock(texts, JSONstringify(m.structured_output))
              ELSE IF \/ m.type = "result"
                      \/ m.type = "throw" /\ RecoverableTruncation(m.error, buffered)
                THEN IF buffered = EmptyStr THEN texts = <<>>
                     ELSE IsTextBlock(texts, buffered)
              ELSE texts = <<>>

\* C17: in JSON mode a plain-text partial token or an assistant message
\* emits no text-start and no text-delta and leaves the run in progress;
\* when no structured-output fragment was streamed, no text event is emitted
\* before the terminal result or the recovered truncation, whose handling
\* emits the text at most once, as one complete text block (the
\* structured-output payload if the result carries one, the accumulated text
\* otherwise).
C17_JsonTextSurfacedOnce == [][C17Step]_vars

\* partial token "a", then a result without payload: one block with "a"
C17_Witness ==
  /\ stream.jsonMode
  /\ stream.hist = <<TextDeltaEvent(StrA), Success1>>
  /\ IsTextBlock(OfTypes(Out, TextTypes), StrA)
  /\ LastEntry(Out).type = "finish"

\* the id of the block left open by a sequence of parts, NoId if none is
RECURSIVE OpenBlock(_, _, _)
OpenBlock(parts, start, end) ==
  IF parts = <<>> THEN NoId
  ELSE LET last == parts[Len(parts)]
       IN  IF last.type = start THEN last.id
           ELSE IF last.type = end THEN NoId
           ELSE OpenBlock(SubSeq(parts, 1, Len(parts) - 1), start, end)

\* C20: in the output of doStream a text-start is emitted only while no text
\* block is open, a text-delta and a text-end carry the id of the text block
\* that is open, and a reasoning-start is emitted only while no reasoning
\* block is open.
C20_OneOpenBlock ==
  \A k \in 1..Len(Out) :
    LET openText == OpenBlock(SubSeq(Out, 1, k - 1), "text-start", "text-end")
        openReasoning ==
          OpenBlock(SubSeq(Out, 1, k - 1), "reasoning-start", "reasoning-end")
    IN  /\ Out[k].type = "text-start" => openText = NoId
        /\ Out[k].type \in {"text-delta", "text-end"} =>
             openText # NoId /\ Out[k].id = openText
        /\ Out[k].type = "reasoning-start" => openReasoning = NoId

C18Step ==
  LET m == LastEntry(stream'.hist)
      texts == OfTypes(NewOut, TextTypes)
      payload == m.structured_output
  IN  ( /\ stream.jsonMode
        /\ Received
        /\ NoResultIn(stream.hist)
        /\ m.type = "result" ) =>
      /\ ~NoJsonFragmentIn(stream.hist) =>
           /\ Len(texts) = 1
           /\ texts[1].type = "text-end"
           /\ texts[1].id = OpenBlock(stream.out, "text-start", "text-end")
           /\ texts[1].id # NoId
      /\ (NoJsonFragmentIn(stream.hist) /\ payload.t # "undefined") =>
           IsTextBlock(texts, JSONstringify(payload))
      /\ (~NoJsonFragmentIn(stream.hist) \/ payload.t # "undefined") =>
           /\ Cardinality(Positions(stream'.out, {"text-start"})) = 1
           /\ Cardinality(Positions(stream'.out, {"text-end"})) = 1

\* C18: in JSON mode, when a structured-output fragment was streamed, the
\* handling of the terminal result emits the text-end of the open block and
\* no other text event, whether or not the result carries a payload; when
\* none was streamed the payload is emitted as one complete text block; in
\* both cases the output then holds exactly one text-start and one text-end.
C18_StreamedJsonNotDuplicated == [][C18Step]_vars

\* a fragment is streamed and the result carries a payload: one block
C18_Witness ==
  /\ stream.jsonMode
  /\ stream.hist = <<JsonDeltaEvent(StrA), Success2>>
  /\ Cardinality(Positions(Out, {"text-delta"})) = 1
  /\ \A k \in Positions(Out, {"text-delta"}) : Out[k].text = StrA
  /\ Cardinality(Positions(Out, {"text-end"})) = 1
  /\ LastEntry(Out).type = "finish"

(***************************************************************************)
(* The flags of the tracked tools.                                          *)
(***************************************************************************)
FlagsOrdered(state) ==
  /\ state.callEmitted => state.inputClosed
  /\ state.inputClosed => state.inputStarted

C19Step ==
  /\ \A i \in 1..Len(stream'.toolStates) : FlagsOrdered(stream'.toolStates[i])
  /\ \A i \in 1..Len(stream.toolStates), j \in 1..Len(stream'.toolStates) :
       stream.toolStates[i].id = stream'.toolStates[j].id =>
         /\ stream.toolStates[i].inputStarted => stream'.toolStates[j].inputStarted
         /\ stream.toolStates[i].inputClosed => stream'.toolStates[j].inputClosed
         /\ stream.toolStates[i].callEmitted => stream'.toolStates[j].callEmitted

\* C19: after every step of a doStream run, for every tracked tool,
\* callEmitted implies inputClosed and inputClosed implies inputStarted, and
\* a flag that was true before the step is true after it.
C19_ToolFlagsOrderedMonotonic == [][C19Step]_vars

\* T1 has been called, T2 has only been started
C19_Witness ==
  /\ Len(stream.toolStates) = 2
  /\ stream.toolStates[1].id = T1
  /\ stream.toolStates[1].callEmitted
  /\ stream.toolStates[1].inputClosed
  /\ stream.toolStates[2].id = T2
  /\ stream.toolStates[2].inputStarted
  /\ ~stream.toolStates[2].inputClosed

(***************************************************************************)
(* The two entry points on one upstream sequence.  GenReplay runs the       *)
(* message loop of doGenerate over a history.                               *)
(***************************************************************************)
RECURSIVE GenReplay(_, _)
GenReplay(g, h) ==
  IF h = <<>> \/ g.pc # "loop" THEN g
  ELSE LET m == Head(h)
           r == CASE m.type = "assistant" -> GenAssistant(g, m)
                  [] m.type = "result" -> GenResult(g, m)
                  [] m.type = "system" -> GenSystem(g, m)
                  [] m.type = "throw" -> GenCatch(g, m.error)
                  [] m.type = "end" -> GenReturn(g)
                  [] OTHER -> g
           settled == IF r.thrown.isThrown THEN GenCatch(r, r.thrown.error) ELSE r
       IN  GenReplay(settled, Tail(h))

NoPartialIn(h) == \A k \in 1..Len(h) : h[k].type # "stream_event"

\* the upstream sequence is over: its iterator has thrown or completed
UpstreamOver(h) == h # <<>> /\ LastEntry(h).type \in {"throw", "end"}

\* C21: on one upstream sequence, doGenerate returns normally exactly when
\* doStream emits a finish event and throws exactly when doStream emits an
\* error event; when both complete, the finish event carries the finish
\* reason and the usage doGenerate returns, and without partial-token events
\* the text doGenerate returns is the concatenation of the text-delta
\* payloads of doStream.
C21_EntryPointsAgree ==
  LET g == GenReplay(GenInit, stream.hist)
      finishes == Positions(Out, {"finish"})
      errors == Positions(Out, {"error"})
  IN  (stream.pc = "closed" /\ UpstreamOver(stream.hist)) =>
        /\ g.pc = "returned" <=> finishes # {}
        /\ g.pc = "thrown" <=> errors # {}
        /\ (g.pc = "returned" /\ finishes # {}) =>
             /\ \A k \in finishes :
                  (\A j \in finishes : j <= k) =>
                    /\ Out[k].finishReason = g.result.finishReason
                    /\ Out[k].usage = g.result.usage
             /\ NoPartialIn(stream.hist) => g.result.text = DeliveredText(Out)

(***************************************************************************)
(* Usage.                                                                   *)
(***************************************************************************)
\* a count of the raw usage record, 0 when it is missing
Tokens(x) == IF x.isNumber THEN x.v ELSE 0

\* the usage to report after a history: counted from the last result message
\* that carries a usage record, all zero when there is none
RECURSIVE ExpectedUsage(_)
ExpectedUsage(h) ==
  IF h = <<>> THEN [inputTokens |-> 0, outputTokens |-> 0, totalTokens |-> 0]
  ELSE LET m == h[Len(h)]
           input == Tokens(m.usage.input_tokens)
                      + Tokens(m.usage.cache_creation_input_tokens)
                      + Tokens(m.usage.cache_read_input_tokens)
           output == Tokens(m.usage.output_tokens)
       IN  IF m.type = "result" /\ m.hasUsage
             THEN [inputTokens |-> input, outputTokens |-> output,
                   totalTokens |-> input + output]
             ELSE ExpectedUsage(SubSeq(h, 1, Len(h) - 1))

\* C22: the usage of a finish event of doStream and of the value doGenerate
\* returns has inputTokens = input_tokens + cache_creation_input_tokens +
\* cache_read_input_tokens of the raw usage with a missing count as 0,
\* outputTokens = output_tokens and totalTokens = inputTokens +
\* outputTokens; when no result message carried usage (a truncation before
\* any result, a result without usage) the three are 0.
C22_UsageArithmetic ==
  /\ (stream.pc # "idle" /\ LastEntry(Out).type = "finish") =>
       LastEntry(Out).usage = ExpectedUsage(stream.hist)
  /\ gen.pc = "returned" => gen.result.usage = ExpectedUsage(gen.hist)

\* a finish event for a result whose usage lacks the cache counts, after text
C22_Witness ==
  /\ stream.pc = "loop"
  /\ Len(stream.hist) = 2
  /\ LastEntry(stream.hist) = Success2
  /\ LastEntry(Out).type = "finish"
  /\ LastEntry(Out).usage = [inputTokens |-> 5, outputTokens |-> 1, totalTokens |-> 6]

(***************************************************************************)
(* Tool names.                                                              *)
(***************************************************************************)
NamedToolTypes == {"tool-input-start", "tool-call", "tool-result", "tool-error"}

\* the name the tracking map holds for the id, "" if the id is not tracked
TrackedName(toolStates, id) ==
  IF \E i \in 1..Len(toolStates) : toolStates[i].id = id
    THEN toolStates[CHOOSE i \in 1..Len(toolStates) : toolStates[i].id = id].name
    ELSE ""

\* the name of the echoes of the id in a content array, "" if they have none
EchoName(content, id) ==
  IF \E i \in 1..Len(content) : content[i].id = id /\ content[i].name # ""
    THEN content[CHOOSE i \in 1..Len(content) :
                   content[i].id = id /\ content[i].name # ""].name
    ELSE ""

C23Step ==
  LET m == LastEntry(stream'.hist)
  IN  Received =>
        /\ \A k \in 1..Len(NewOut) :
             NewOut[k].type \in NamedToolTypes => NewOut[k].toolName # ""
        /\ m.type = "user" =>
             \A k \in 1..Len(NewOut) :
               NewOut[k].type \in {"tool-result", "tool-error"} =>
                 NewOut[k].toolName =
                   IF EchoName(m.content, NewOut[k].id) # ""
                     THEN EchoName(m.content, NewOut[k].id)
                   ELSE IF TrackedName(stream.toolStates, NewOut[k].id) # ""
                     THEN TrackedName(stream.toolStates, NewOut[k].id)
                   ELSE "unknown-tool"
        /\ (m.type = "assistant" /\ stream'.pc = "loop") =>
             \A i \in 1..Len(m.content) :
               ( /\ m.content[i].type = "tool_use"
                 /\ m.content[i].name = ""
                 /\ m.content[i].id # NoId
                 /\ \A j \in (i + 1)..Len(m.content) : m.content[j].id # m.content[i].id ) =>
                 TrackedName(stream'.toolStates, m.content[i].id) = "unknown-tool"

\* C23: every tool event that carries a tool name carries a non-empty one;
\* a tool-result or tool-error carries the name of the echo if the echo has
\* one, else the name tracked for the id, else 'unknown-tool'; a tool-use
\* without a name is tracked under 'unknown-tool'.
C23_ToolNamesNeverBlank == [][C23Step]_vars

\* an echo without a name of an untracked id carries 'unknown-tool', an
\* echo with a name then carries its own, and a later echo without a name
\* carries the name that is tracked by then
C23_Witness ==
  \E k1, k2, k3 \in 1..Len(Out) :
    /\ k1 < k2 /\ k2 < k3
    /\ Out[k1].type = "tool-error" /\ Out[k1].id = T2
    /\ Out[k1].toolName = "unknown-tool"
    /\ Out[k2].type = "tool-result" /\ Out[k2].id = T2 /\ Out[k2].toolName = "Read"
    /\ Out[k3].type = "tool-error" /\ Out[k3].id = T2 /\ Out[k3].toolName = "Read"

(***************************************************************************)
(* The input iterable of streaming input.                                   *)
(***************************************************************************)
\* the translator has received a result message or caught an error
OutputSideOver(h) == \E k \in 1..Len(h) : h[k].type \in {"result", "throw"}

InputHeldOpen(call) ==
  /\ call.sdkPrompt.pos \in {"yielded", "awaiting", "completed"} =>
       call.sdkPrompt.yielded = 1
  /\ call.sdkPrompt.pos = "completed" => OutputSideOver(call.hist)

\* C24: with streaming input, the input iterable yields one user message
\* and does not complete before the translator has received a result
\* message or caught an upstream error, in doStream and in doGenerate.
C24_InputOpenUntilOutputEnds == InputHeldOpen(stream) /\ InputHeldOpen(gen)

\* the upstream asked for a second input while messages were still coming,
\* and the iterable completed only after the result message
C24_Witness ==
  /\ stream.sdkPrompt.pos = "completed"
  /\ Len(stream.hist) = 2
  /\ stream.hist[1].type = "assistant"
  /\ stream.hist[2].type = "result"
  /\ stream.pc = "loop"

(***************************************************************************)
(* The end of the output.                                                   *)
(***************************************************************************)
\* C25: in the output of doStream a finish or error event is the last
\* event: nothing is emitted after it, whatever the upstream yields or
\* throws after its result message.
C25_TerminalEventIsLast ==
  \A k \in 1..(Len(Out) - 1) : Out[k].type \notin {"finish", "error"}

(***************************************************************************)
(* Recovery from a truncation in doStream.                                  *)
(***************************************************************************)
C26Step ==
  LET e == LastEntry(stream'.hist).error
      buffered == stream.accumulatedText
      open == OpenBlock(Out, "text-start", "text-end")
      text == OfTypes(NewOut, TextTypes)
      finishes == Positions(NewOut, {"finish"})
  IN  ( /\ Received
        /\ NoResultIn(stream.hist)
        /\ LastEntry(stream'.hist).type = "throw"
        /\ RecoverableTruncation(e, buffered) ) =>
      /\ finishes = {Len(NewOut)}
      /\ IF open # NoId
           THEN /\ Len(text) = 1
                /\ text[1].type = "text-end"
                /\ text[1].id = open
           ELSE IsTextBlock(text, buffered)
      /\ \A id \in PendingTools :
           \E i, j \in 1..Len(NewOut) :
             /\ i < j
             /\ NewOut[i].type = "tool-input-end" /\ NewOut[i].id = id
             /\ NewOut[j].type = "tool-call" /\ NewOut[j].id = id
      /\ \A k \in 1..Len(NewOut) :
           NewOut[k].type \in TextTypes \cup {"tool-input-end", "tool-call"} =>
             k < Len(NewOut)

\* C26: when doStream recovers from a truncation, before the finish event
\* it closes the open text block with text-end, or emits the buffered text
\* as one complete block if no block is open, and gives every tracked tool
\* whose call was not emitted its tool-input-end and its tool-call.
C26_TruncationClosesBlocks == [][C26Step]_vars

\* a tool and a text block were open when the truncation came
C26_Witness ==
  /\ stream.pc = "closed"
  /\ Len(stream.hist) = 3
  /\ LastEntry(stream.hist).type = "throw"
  /\ LastEntry(Out).type = "finish" /\ LastEntry(Out).truncated
  /\ \E i, j, k \in 1..Len(Out) :
       /\ i < j /\ j < k
       /\ Out[i].type = "text-end"
       /\ Out[j].type = "tool-input-end" /\ Out[j].id = T1
       /\ Out[k].type = "tool-call" /\ Out[k].id = T1

(***************************************************************************)
(* Text blocks at the end of the stream.                                    *)
(***************************************************************************)
\* C27: when the output of doStream is closed, every text-start has been
\* followed by a text-end with the same id, whichever way the run ended
\* (result, truncation, hard error, cancellation, exhaustion).
C27_TextBlocksClosedAtEnd ==
  stream.pc = "closed" =>
    \A k \in Positions(Out, {"text-start"}) :
      \E j \in PositionsOf(Out, {"text-end"}, Out[k].id) : k < j

(***************************************************************************)
(* Text blocks and tool calls.                                              *)
(***************************************************************************)
\* C28: in the output of doStream no tool-call lies between a text-start
\* and the text-end that closes it, and text emitted after a tool-call
\* belongs to a block opened after it, with an id no earlier block had.
C28_NoToolCallInsideTextBlock ==
  \A k \in Positions(Out, {"tool-call"}) :
    /\ OpenBlock(SubSeq(Out, 1, k - 1), "text-start", "text-end") = NoId
    /\ \A j \in Positions(Out, {"text-delta"}) :
         k < j => \A i \in PositionsOf(Out, {"text-start"}, Out[j].id) : k < i

(***************************************************************************)
(* Reasoning blocks.                                                        *)
(***************************************************************************)
\* the texts of the thinking parts of a content array, in order
RECURSIVE ThinkingParts(_)
ThinkingParts(content) ==
  IF content = <<>> THEN <<>>
  ELSE IF Head(content).type = "thinking"
    THEN <<Head(content).text>> \o ThinkingParts(Tail(content))
    ELSE ThinkingParts(Tail(content))

C29Step ==
  LET m == LastEntry(stream'.hist)
      thinking == ThinkingParts(m.content)
      starts == Positions(NewOut, {"reasoning-start"})
      deltas == OfTypes(NewOut, {"reasoning-delta"})
  IN  (Received /\ m.type = "assistant" /\ stream'.pc = "loop") =>
        /\ Cardinality(starts) = Len(thinking)
        /\ Len(deltas) = Len(thinking)
        /\ Len(OfTypes(NewOut, {"reasoning-end"})) = Len(thinking)
        /\ \A i \in 1..Len(thinking) : deltas[i].text = thinking[i]
        /\ \A k \in starts :
             /\ k + 2 <= Len(NewOut)
             /\ NewOut[k + 1].type = "reasoning-delta" /\ NewOut[k + 1].id = NewOut[k].id
             /\ NewOut[k + 2].type = "reasoning-end" /\ NewOut[k + 2].id = NewOut[k].id
             /\ \A j \in 1..Len(Out) : Out[j].id # NewOut[k].id
             /\ \A j \in 1..(k - 1) : NewOut[j].id # NewOut[k].id
        /\ OpenBlock(stream'.out, "reasoning-start", "reasoning-end") = NoId

\* C29: each thinking part of an assistant message that doStream handles
\* produces, consecutively, reasoning-start, reasoning-delta with the part's
\* text and reasoning-end, the three with one id that no earlier event has;
\* no reasoning block is open when the handling of the message ends, and
\* the message produces as many blocks as it has thinking parts.
C29_ReasoningBlocksComplete == [][C29Step]_vars

\* two blocks from one message, after a block from an earlier message
C29_Witness ==
  /\ Len(stream.hist) = 2
  /\ LastEntry(stream.hist) = AssistantMsg(<<ThinkingPart(StrA), ThinkingPart(StrB)>>)
  /\ Len(OfTypes(Out, {"reasoning-start"})) = 3
  /\ Len(OfTypes(Out, {"reasoning-end"})) = 3
  /\ Cardinality({Out[k].id : k \in Positions(Out, {"reasoning-start"})}) = 3

(***************************************************************************)
(* Tool input that grows by extension.                                      *)
(***************************************************************************)
\* the non-empty serialized inputs of the id among the parts, in order
RECURSIVE InputsAmong(_, _)
InputsAmong(parts, id) ==
  IF parts = <<>> THEN <<>>
  ELSE LET serialized == serializeToolInput(Head(parts).input)
       IN  IF Head(parts).id = id /\ ~serialized.threw /\ serialized.value # EmptyStr
             THEN <<serialized.value>> \o InputsAmong(Tail(parts), id)
             ELSE InputsAmong(Tail(parts), id)

RECURSIVE InputsSeen(_, _)
InputsSeen(h, id) ==
  IF h = <<>> THEN <<>>
  ELSE IF Head(h).type = "assistant"
    THEN InputsAmong(ReachedUses(Head(h).content), id) \o InputsSeen(Tail(h), id)
    ELSE InputsSeen(Tail(h), id)

\* S strictly extends L and both are within the delta threshold
Extends(L, S) ==
  /\ StrStartsWith(S, L)
  /\ StrLen(L) < StrLen(S)
  /\ StrLen(S) <= 10000

\* every input of the sequence extends the one before it
GrowsByExtension(inputs) ==
  /\ inputs # <<>>
  /\ StrLen(inputs[1]) <= 10000
  /\ \A i \in 2..Len(inputs) : Extends(inputs[i - 1], inputs[i])

\* the concatenation of the tool-input-delta payloads of the id
RECURSIVE InputDeltas(_, _)
InputDeltas(parts, id) ==
  IF parts = <<>> THEN EmptyStr
  ELSE IF Head(parts).type = "tool-input-delta" /\ Head(parts).id = id
    THEN StrCat(Head(parts).text, InputDeltas(Tail(parts), id))
    ELSE InputDeltas(Tail(parts), id)

InputOpen(toolStates, id) ==
  \E i \in 1..Len(toolStates) :
    /\ toolStates[i].id = id
    /\ toolStates[i].inputStarted
    /\ ~toolStates[i].inputClosed

C30Step ==
  LET m == LastEntry(stream'.hist)
      reached == ReachedUses(m.content)
  IN  (Received /\ NoResultIn(stream.hist)) =>
      /\ m.type = "assistant" =>
           \A i \in 1..Len(reached) :
             LET id == reached[i].id
                 serialized == serializeToolInput(reached[i].input)
                 L == LastInputSeen(stream.hist, id)
                 now == PositionsOf(NewOut, {"tool-input-delta"}, id)
             IN  ( /\ id.src = "upstream"
                   /\ \A j \in 1..Len(reached) : reached[j].id = id => j = i
                   /\ InputOpen(stream.toolStates, id)
                   /\ ~serialized.threw
                   /\ L # EmptyStr
                   /\ Extends(L, serialized.value) ) =>
                 /\ Cardinality(now) = 1
                 /\ \A k \in now : StrCat(L, NewOut[k].text) = serialized.value
      /\ \A k \in 1..Len(NewOut) :
           ( /\ NewOut[k].type = "tool-call"
             /\ NewOut[k].id.src = "upstream"
             /\ GrowsByExtension(InputsSeen(stream'.hist, NewOut[k].id)) ) =>
             InputDeltas(stream'.out, NewOut[k].id) = NewOut[k].text

\* C30: while a tool's input is open, a tool-use fragment whose serialized
\* input strictly extends the previous serialized input of its id, both
\* within the delta threshold, emits one tool-input-delta that carries
\* exactly the appended suffix; and when every update of an id is such an
\* extension, the concatenation of the id's tool-input-delta payloads equals
\* the input of its tool-call.
C30_ExtensionEmitsSuffix == [][C30Step]_vars

\* input "a" extended to "ab": deltas "a" and "b", tool-call with "ab"
C30_Witness ==
  /\ Len(stream.hist) = 3
  /\ InputsSeen(stream.hist, T1) = <<StrA, StrAB>>
  /\ \E i, j, k \in 1..Len(Out) :
       /\ i < j /\ j < k
       /\ Out[i].type = "tool-input-delta" /\ Out[i].id = T1 /\ Out[i].text = StrA
       /\ Out[j].type = "tool-input-delta" /\ Out[j].id = T1 /\ Out[j].text = StrOf(<<"b">>)
       /\ Out[k].type = "tool-call" /\ Out[k].id = T1 /\ Out[k].text = StrAB

(***************************************************************************)
(* The size of a tool input.                                                *)
(***************************************************************************)
C31Step ==
  LET m == LastEntry(stream'.hist)
  IN  ( /\ Received
        /\ NoResultIn(stream.hist)
        /\ m.type = "assistant"
        /\ Len(m.content) = 1
        /\ m.content[1].type = "tool_use"
        /\ m.content[1].input.t = "string" ) =>
      LET id == m.content[1].id
          length == StrLen(m.content[1].input.v)
          logged == serializeToolInput(m.content[1].input).warned
      IN  /\ length > 1048576 =>
               /\ stream'.pc = "closed"
               /\ Cardinality(Positions(NewOut, {"error"})) = 1
               /\ LastEntry(NewOut).type = "error"
               /\ Positions(NewOut, {"finish"}) = {}
          /\ length <= 1048576 =>
               /\ stream'.pc = "loop"
               /\ Positions(NewOut, {"error", "finish"}) = {}
               /\ PositionsOf(stream'.out, {"tool-input-start"}, id) # {}
               /\ LastInputSeen(stream'.hist, id) =
                    IF length = 0 THEN LastInputSeen(stream.hist, id)
                    ELSE m.content[1].input.v
               /\ logged <=> length > 102400
          /\ \A k \in 1..Len(NewOut) :
               (NewOut[k].type = "tool-call" /\ NewOut[k].id.src = "upstream") =>
                 NewOut[k].text = LastInputSeen(stream.hist, NewOut[k].id)

C31EndStep ==
  (Received /\ NoResultIn(stream.hist) /\ LastEntry(stream'.hist).type # "assistant") =>
    \A k \in 1..Len(NewOut) :
      (NewOut[k].type = "tool-call" /\ NewOut[k].id.src = "upstream") =>
        NewOut[k].text = LastInputSeen(stream.hist, NewOut[k].id)

C32_TruncationClassifiedFirst ==
  /\ ( /\ stream.pc = "closed"
       /\ LastEntry(stream.hist).type = "throw"
       /\ RecoverableTruncation(LastEntry(stream.hist).error, stream.accumulatedText) ) =>
       Positions(Out, {"error"}) = {}
  /\ ( /\ gen.pc \in {"returned", "thrown"}
       /\ LastEntry(gen.hist).type = "throw"
       /\ RecoverableTruncation(LastEntry(gen.hist).error, GenBuffered(gen.hist)) ) =>
       gen.pc = "returned"

(***************************************************************************)
(* Messages that are ignored.                                               *)
(***************************************************************************)
\* a message of an unrecognised type, a system message that is not init, a
\* partial event that is no content-block text or JSON delta
Ignorable(m) ==
  \/ m.type \notin {"stream_event", "assistant", "user", "result", "system",
                    "throw", "end"}
  \/ m.type = "system" /\ m.subtype # "init"
  \/ /\ m.type = "stream_event"
     /\ ~( /\ m.eventType = "content_block_delta"
           /\ m.deltaType \in {"text_delta", "input_json_delta"} )

C33Step ==
  (Received /\ Ignorable(LastEntry(stream'.hist))) =>
    /\ NewOut = <<>>
    /\ stream' = [stream EXCEPT !.hist = stream'.hist]
    /\ sessionId' = sessionId

\* C33: in doStream a message of an unrecognised type, a system message
\* that is not init and a partial event that is not a content-block text or
\* JSON delta emit no event, do not end the run and leave the translator's
\* state and the session id as they were.
C33_IgnoredMessagesChangeNothing == [][C33Step]_vars

\* two ignored messages after text: the output is still the open block
C33_Witness ==
  /\ Len(stream.hist) = 3
  /\ stream.hist[1] = TextDeltaEvent(StrA)
  /\ stream.hist[2] = SystemMsg("compact_boundary", "s2")
  /\ stream.hist[3] = StreamEventMsg("content_block_delta", "thinking_delta", StrA)
  /\ stream.pc = "loop"
  /\ Len(Out) = 3
  /\ sessionId = NoSession

(***************************************************************************)
(* Structured-output fragments outside JSON mode.                           *)
(***************************************************************************)
\* the run of doStream in non-JSON mode on a history
RECURSIVE StreamReplay(_)
StreamReplay(h) ==
  IF h = <<>> THEN StreamInit(FALSE)
  ELSE LET before == StreamReplay(SubSeq(h, 1, Len(h) - 1))
           m == h[Len(h)]
       IN  IF before.pc # "loop" THEN before
           ELSE IF m.type = "stream_event" THEN Settle(HandleStreamEvent(before, m))
           ELSE IF m.type = "assistant" THEN Settle(HandleAssistant(before, m))
           ELSE IF m.type = "user" THEN Settle(HandleUser(before, m))
           ELSE IF m.type = "result" THEN Settle(HandleResult(before, m))
           ELSE IF m.type = "system" THEN Settle(HandleSystem(before, m))
           ELSE IF m.type = "throw" THEN Catch(before, m.error)
           ELSE IF m.type = "end" THEN AfterLoop(before)
           ELSE before

\* the history without its structured-output fragments
RECURSIVE WithoutJsonFragments(_)
WithoutJsonFragments(h) ==
  IF h = <<>> THEN <<>>
  ELSE IF IsJsonFragment(Head(h)) THEN WithoutJsonFragments(Tail(h))
  ELSE <<Head(h)>> \o WithoutJsonFragments(Tail(h))

\* C34: in non-JSON mode the output of doStream for an upstream sequence is
\* the output for the sequence with its input_json_delta fragments left
\* out: a fragment emits nothing and does not change how later messages
\* are translated.
C34_JsonFragmentsInert ==
  (stream.pc # "idle" /\ ~stream.jsonMode) =>
    Out = StreamReplay(WithoutJsonFragments(stream.hist)).out

(***************************************************************************)
(* Closing and calling.                                                     *)
(***************************************************************************)
\* C35: in the output of doStream every tool-input-end is immediately
\* followed by the tool-call of the same id, whether the tool is finalized
\* by a result echo, an error echo, a result message or the end of the run.
C35_InputEndThenCall ==
  \A k \in Positions(Out, {"tool-input-end"}) :
    /\ k < Len(Out)
    /\ Out[k + 1].type = "tool-call"
    /\ Out[k + 1].id = Out[k].id

\* two tools finalized in one step: end, call, end, call
C35_Witness ==
  \E k \in 1..(Len(Out) - 3) :
    /\ Out[k].type = "tool-input-end" /\ Out[k].id = T1
    /\ Out[k + 1].type = "tool-call" /\ Out[k + 1].id = T1
    /\ Out[k + 2].type = "tool-input-end" /\ Out[k + 2].id = T2
    /\ Out[k + 3].type = "tool-call" /\ Out[k + 3].id = T2

(***************************************************************************)
(* Tool input after the input was closed.                                   *)
(***************************************************************************)
\* C36: in the output of doStream no tool-input-start and no
\* tool-input-delta of an id comes after the tool-input-end or the
\* tool-call of that id.
C36_NoInputAfterClose ==
  \A k \in Positions(Out, {"tool-input-end", "tool-call"}) :
    \A j \in PositionsOf(Out, {"tool-input-start", "tool-input-delta"}, Out[k].id) :
      j < k

(***************************************************************************)
(* The buffer for truncation recovery.                                      *)
(***************************************************************************)
\* only partial-token events and assistant messages have arrived
TokensAndTurnsOnly(h) ==
  \A k \in 1..Len(h) : h[k].type \in {"stream_event", "assistant"}

\* C37: in non-JSON mode, in every state of a doStream run that has received
\* only partial-token events and assistant messages, in any order,
\* accumulatedText is the concatenation of the text-delta payloads emitted so
\* far, and once a partial event was seen streamedTextLength is its length.
C37_BufferIsDeliveredText ==
  (stream.pc # "idle" /\ ~stream.jsonMode /\ TokensAndTurnsOnly(stream.hist)) =>
    /\ stream.accumulatedText = DeliveredText(Out)
    /\ stream.hasReceivedStreamEvents =>
         stream.streamedTextLength = StrLen(DeliveredText(Out))


(***************************************************************************)
(* The tracked name of a tool.                                              *)
(***************************************************************************)
C38Ids == {T1, T2}

C38Step ==
  Received =>
    \A id \in C38Ids :
      TrackedName(stream.toolStates, id) \notin {"", "unknown-tool"} =>
        /\ TrackedName(stream'.toolStates, id) # "unknown-tool"
        /\ \A k \in 1..Len(NewOut) :
             (NewOut[k].type = "tool-call" /\ NewOut[k].id = id) =>
               NewOut[k].toolName # "unknown-tool"

\* C38: once the tracking map of doStream holds a real name for a tool id, no
\* later message replaces it by 'unknown-tool', and the tool-call of the id
\* carries a real name.
C38_RealNameIsKept == [][C38Step]_vars


(***************************************************************************)
(* SpecInputLive: SpecInput with the scheduling of the event loop: a        *)
(* continuation that can run does run, and the upstream, whose sequences    *)
(* are finite, yields, throws or ends.                                      *)
(***************************************************************************)
SpecInputLive == SpecInput /\ WF_vars(NextInput)

Resolved(call) == call.doneCalled /\ call.sdkPrompt.pos = "completed"

\* C39: with streaming input, once the upstream iterator is over, by a
\* result message followed by its end, by a thrown error, by a truncation
\* or by its end without a result message, outputStreamEnded is eventually
\* resolved and the input iterable completes, in doStream and in doGenerate.
C39_InputEventuallyCompletes ==
  /\ (stream.sdkPrompt.pos # "none" /\ UpstreamOver(stream.hist)) ~> Resolved(stream)
  /\ (gen.sdkPrompt.pos # "none" /\ UpstreamOver(gen.hist)) ~> Resolved(gen)


(***************************************************************************)
(* SpecOverlap: a doStream call and a doGenerate call in flight on one      *)
(* model instance, each with its own upstream session.                      *)
(***************************************************************************)
MaxOverlapMsgs == 3

OverlapInputs ==
  [ streamSystem |-> { SystemMsg("init", "s1") },
    streamAssistant |-> { AssistantMsg(<<TextPart(StrFloor)>>) },
    streamResult |-> { Success1 },
    streamErrors |-> { ErrTruncation },
    genSystem |-> { SystemMsg("init", "s2") },
    genAssistant |-> { AssistantMsg(<<TextPart(StrA)>>) },
    genResult |-> { ResultMsg("success", "s2", TRUE, Usage2, JUndefined) } ]

InitOverlap ==
  /\ sessionId = NoSession
  /\ settings = NoSettings
  /\ stream = StreamInit(FALSE)
  /\ gen = GenInit
  /\ probe = ProbeIdle

NextOverlap ==
  \/ OnSystem(OverlapInputs.streamSystem, MaxOverlapMsgs)
  \/ OnAssistant(OverlapInputs.streamAssistant, MaxOverlapMsgs)
  \/ OnResult(OverlapInputs.streamResult, MaxOverlapMsgs)
  \/ UpstreamThrows(OverlapInputs.streamErrors)
  \/ UpstreamEnds
  \/ GenerateOnSystem(OverlapInputs.genSystem, MaxOverlapMsgs)
  \/ GenerateOnAssistant(OverlapInputs.genAssistant, MaxOverlapMsgs)
  \/ GenerateOnResult(OverlapInputs.genResult, MaxOverlapMsgs)
  \/ GenerateEnds

SpecOverlap == InitOverlap /\ [][NextOverlap]_vars

(***************************************************************************)
(* The session id of overlapping invocations.                               *)
(***************************************************************************)
\* the invocation has received an init or a result message
HasOwnSession(h) == \E k \in 1..Len(h) : CapturesSession(h[k])

\* the session id of the last init or result message of the invocation
OwnSession(h) ==
  h[CHOOSE k \in 1..Len(h) :
      /\ CapturesSession(h[k])
      /\ \A j \in (k + 1)..Len(h) : ~CapturesSession(h[j])].session_id

\* C40: when a doStream call and a doGenerate call overlap on one model
\* instance, in any interleaving, the session id doGenerate returns is the
\* one of its own init or result message, and so is the session id of the
\* truncation finish event of doStream.
C40_OwnSessionReported ==
  /\ (gen.pc = "returned" /\ HasOwnSession(gen.hist)) =>
       gen.result.sessionId = OwnSession(gen.hist)
  /\ \A k \in Positions(Out, {"finish"}) :
       (Out[k].truncated /\ HasOwnSession(stream.hist)) =>
         Out[k].sessionId = OwnSession(stream.hist)

====
